---- MODULE Spec2Model ----
(***************************************************************************)
(* sshControl: the fan-out executor (ConnectMultiple / executeOnHost),     *)
(* the transport dialer (SSHConnection.dial / createAuthMethods) and the   *)
(* one-shot session engine (SSHConnection.ExecuteCommandWithOutput).       *)
(*                                                                         *)
(* Strings that the program parses or compares with parsed text (tokens,   *)
(* host names, addresses, user names, tags) are sequences of one-character *)
(* strings.  Strings the program only passes along (key paths, passwords,  *)
(* error texts, output bytes) are TLA+ strings.                            *)
(***************************************************************************)
EXTENDS Integers, Sequences, FiniteSets, TLC

\* ------------------------------------------------------------------ bounds
MaxArgs == 2            \* host arguments given on the command line
MaxEmit == 2            \* chunks a remote command emits before it ends
MaxConns == 2           \* connections a relay accepts
MaxBytes == 2           \* bytes the peers send through a relay
MaxTokenLen == 3        \* characters of a host argument typed freely
MaxSessions == 3        \* sessions that reach one remote account at the same time

\* ------------------------------------------------------------ characters
Upper == <<"A","B","C","D","E","F","G","H","I","J","K","L","M",
           "N","O","P","Q","R","S","T","U","V","W","X","Y","Z">>
Lower == <<"a","b","c","d","e","f","g","h","i","j","k","l","m",
           "n","o","p","q","r","s","t","u","v","w","x","y","z">>
DigitChars == <<"0","1","2","3","4","5","6","7","8","9">>

Range(s) == {s[i] : i \in 1..Len(s)}

\* strings.ToLower, one character
LowerChar(c) ==
  IF \E i \in 1..26 : Upper[i] = c
  THEN Lower[CHOOSE i \in 1..26 : Upper[i] = c]
  ELSE c

\* strings.ToLower
ToLower(s) == [i \in 1..Len(s) |-> LowerChar(s[i])]

\* strings.HasPrefix(s, "@")
HasPrefix(s, c) == Len(s) >= 1 /\ s[1] = c

\* strings.TrimPrefix(s, "@") for a string that has the prefix
TrimPrefix(s) == SubSeq(s, 2, Len(s))

\* position of the first c in s, 0 when there is none
IndexOf(s, c) ==
  IF \E i \in 1..Len(s) : s[i] = c
  THEN CHOOSE i \in 1..Len(s) : s[i] = c /\ \A j \in 1..(i-1) : s[j] # c
  ELSE 0

IsDigits(s) == Len(s) >= 1 /\ \A i \in 1..Len(s) : s[i] \in Range(DigitChars)

DigitVal(c) == (CHOOSE i \in 1..10 : DigitChars[i] = c) - 1

\* strconv.Atoi on a string of decimal digits
RECURSIVE Atoi(_)
Atoi(s) == IF Len(s) = 0 THEN 0
           ELSE 10 * Atoi(SubSeq(s, 1, Len(s) - 1)) + DigitVal(s[Len(s)])

\* --------------------------------------------------------- configuration
NilUser == [isNil |-> TRUE, Name |-> <<>>, SSHKeys |-> <<>>]
NilJump == [isNil |-> TRUE, Name |-> <<>>, Host |-> <<>>, User |-> <<>>, Port |-> 0]

n_w1 == <<"w","1">>
n_w2 == <<"w","2">>
n_d1 == <<"d","1">>
a_h1 == <<"h","1">>
a_h2 == <<"h","2">>
a_h3 == <<"h","3">>
a_h4 == <<"h","4">>
a_j1 == <<"j","1">>
a_j2 == <<"j","2">>
u_al == <<"a","l">>
u_bo == <<"b","o">>
u_op == <<"o","p">>
t_web == <<"w","e","b">>
t_Web == <<"W","e","b">>
t_db  == <<"d","b">>

\* a path is the sequence of its segments; "~/k1" is <<"~", "k1">>
Home == <<"home", "u">>            \* what os.UserHomeDir returns
p_k1 == <<"~", "k1">>
p_k2 == <<"~", "k2">>
p_kj == <<"keys", "kj">>

User_al == [isNil |-> FALSE, Name |-> u_al, SSHKeys |-> <<p_k1, p_k2>>]
User_op == [isNil |-> FALSE, Name |-> u_op, SSHKeys |-> <<p_kj>>]
User_bo == [isNil |-> FALSE, Name |-> u_bo, SSHKeys |-> <<>>]

CatalogHosts ==
  << [Name |-> n_w1, Host |-> a_h1, Port |-> 22,   Tags |-> <<t_Web>>],
     [Name |-> n_w2, Host |-> a_h2, Port |-> 2222, Tags |-> <<t_web, t_db>>],
     [Name |-> n_d1, Host |-> a_h3, Port |-> 22,   Tags |-> <<>>] >>

Jump_ok  == [isNil |-> FALSE, Name |-> <<"j","o">>, Host |-> a_j1, User |-> u_op, Port |-> 22]
Jump_bad == [isNil |-> FALSE, Name |-> <<"j","b">>, Host |-> a_j2, User |-> u_op, Port |-> 22]

\* config.ConfigFile values the runs start from
Catalog(users, auto) ==
  [Hosts |-> CatalogHosts, User |-> users, DefaultUser |-> <<>>,
   AutoCreate |-> auto, JumpHosts |-> <<Jump_ok, Jump_bad>>]

Catalogs == { Catalog(<<User_al, User_op, User_bo>>, TRUE), Catalog(<<>>, FALSE) }

\* ConfigFile.FindUser
FindUser(c, name) ==
  IF \E i \in 1..Len(c.User) : c.User[i].Name = name
  THEN c.User[CHOOSE i \in 1..Len(c.User) :
                 c.User[i].Name = name /\ \A j \in 1..(i-1) : c.User[j].Name # name]
  ELSE NilUser

\* ConfigFile.GetDefaultUser
GetDefaultUser(c) ==
  IF c.DefaultUser # <<>> /\ ~FindUser(c, c.DefaultUser).isNil
  THEN FindUser(c, c.DefaultUser)
  ELSE IF Len(c.User) > 0 THEN c.User[1] ELSE NilUser

\* ConfigFile.GetEffectiveUser
GetEffectiveUser(c, selectedUser) ==
  IF ~selectedUser.isNil THEN selectedUser ELSE GetDefaultUser(c)

\* ConfigFile.FindHost: index of the first host of that name, 0 for nil
FindHost(c, name) ==
  IF \E i \in 1..Len(c.Hosts) : c.Hosts[i].Name = name
  THEN CHOOSE i \in 1..Len(c.Hosts) :
         c.Hosts[i].Name = name /\ \A j \in 1..(i-1) : c.Hosts[j].Name # name
  ELSE 0

\* ConfigFile.FindHostByAddress: index of the first host at that address, 0 for nil
FindHostByAddress(c, address) ==
  IF \E i \in 1..Len(c.Hosts) : c.Hosts[i].Host = address
  THEN CHOOSE i \in 1..Len(c.Hosts) :
         c.Hosts[i].Host = address /\ \A j \in 1..(i-1) : c.Hosts[j].Host # address
  ELSE 0

\* the inner loop of FindHostsByTag: does the host carry the tag, case-insensitively
HostHasTag(h, tag) == \E k \in 1..Len(h.Tags) : ToLower(h.Tags[k]) = ToLower(tag)

\* ConfigFile.FindHostsByTag: the hosts carrying the tag, in catalog order
RECURSIVE FindHostsByTagFrom(_, _, _)
FindHostsByTagFrom(c, tag, i) ==
  IF i > Len(c.Hosts) THEN <<>>
  ELSE (IF HostHasTag(c.Hosts[i], tag) THEN <<c.Hosts[i]>> ELSE <<>>)
       \o FindHostsByTagFrom(c, tag, i + 1)

FindHostsByTag(c, tag) == FindHostsByTagFrom(c, tag, 1)

\* config.ExpandHomePath: strings.HasPrefix(path, "~/") => home + path[1:]
ExpandHomePath(path) ==
  IF Len(path) > 1 /\ Head(path) = "~" THEN Home \o Tail(path) ELSE path

RECURSIVE ExpandKeys(_)
ExpandKeys(keys) ==
  IF Len(keys) = 0 THEN <<>>
  ELSE <<ExpandHomePath(Head(keys))>> \o ExpandKeys(Tail(keys))

\* ConfigFile.GetJumpHostSSHKeys: the configured keys of the jump host's user
GetJumpHostSSHKeys(c, jumpHost) ==
  IF jumpHost.isNil THEN <<>>
  ELSE LET user == FindUser(c, jumpHost.User)
       IN IF user.isNil \/ Len(user.SSHKeys) = 0 THEN <<>>
          ELSE ExpandKeys(user.SSHKeys)

\* ------------------------------------------------ parseDirectConnection
\* an error is the chain of its messages, outermost first; nil is the empty chain
Nil == <<>>

Wrap(msg, err) == <<msg>> \o err

\* ([^:]+)(?::(\d+))?$ matched against r
HostPortMatch(r) ==
  LET k == IndexOf(r, ":")
  IN IF k = 0
     THEN [ok |-> Len(r) >= 1, host |-> r, port |-> <<>>]
     ELSE [ok   |-> k > 1 /\ IsDigits(SubSeq(r, k + 1, Len(r))),
           host |-> SubSeq(r, 1, k - 1),
           port |-> SubSeq(r, k + 1, Len(r))]

\* regexp ^(?:([^@]+)@)?([^:]+)(?::(\d+))?$ : the submatches, or ok = FALSE
RegexMatch(input) ==
  LET k == IndexOf(input, "@")
      withUser == HostPortMatch(SubSeq(input, k + 1, Len(input)))
      noUser   == HostPortMatch(input)
  IN IF k > 1 /\ withUser.ok
     THEN [ok |-> TRUE, user |-> SubSeq(input, 1, k - 1),
           host |-> withUser.host, port |-> withUser.port]
     ELSE [ok |-> noUser.ok, user |-> <<>>,
           host |-> noUser.host, port |-> noUser.port]

SystemUser == <<"r","o","o","t">>

NoParsedHost(e) == [err |-> e, parsedUser |-> <<>>, hostname |-> <<>>, port |-> 0]

\* faulty variant of ParseMatched: the effective user wins over the token's
ParseMatched_effectiveFirst(m, effectiveUser, port) ==
  IF m.port # <<>> /\ (port < 1 \/ port > 65535)
  THEN NoParsedHost(<<"porta invalida">>)
  ELSE IF m.host = <<>> THEN NoParsedHost(<<"hostname nao pode ser vazio">>)
  ELSE [err |-> Nil,
        parsedUser |-> IF ~effectiveUser.isNil THEN effectiveUser.Name
                       ELSE IF m.user # <<>> THEN m.user
                       ELSE SystemUser,
        hostname |-> m.host, port |-> port]

\* parseDirectConnection after the regexp matched with submatches m
ParseMatched(m, effectiveUser, port) ==
  IF m.port # <<>> /\ (port < 1 \/ port > 65535)
  THEN NoParsedHost(<<"porta invalida">>)
  ELSE IF m.host = <<>> THEN NoParsedHost(<<"hostname nao pode ser vazio">>)
  ELSE [err |-> Nil,
        parsedUser |-> IF m.user # <<>> THEN m.user
                       ELSE IF ~effectiveUser.isNil THEN effectiveUser.Name
                       ELSE SystemUser,
        hostname |-> m.host, port |-> port]

ParseWith(m, effectiveUser) ==
  IF ~m.ok THEN NoParsedHost(<<"formato invalido">>)
  ELSE ParseMatched(m, effectiveUser, IF m.port # <<>> THEN Atoi(m.port) ELSE 22)

parseDirectConnection(input, effectiveUser) ==
  ParseWith(RegexMatch(input), effectiveUser)

\* ----------------------------------------------------- expandTagsToHosts
\* the names of hosts not yet in seen, in order, each once
\* faulty variant of AppendNew: no hostSet test, every name is appended
AppendNew_keepDuplicates(acc, names) == acc \o names

RECURSIVE AppendNew(_, _)
AppendNew(acc, names) ==
  IF Len(names) = 0 THEN acc
  ELSE AppendNew(IF Head(names) \in Range(acc) THEN acc ELSE Append(acc, Head(names)),
                 Tail(names))

RECURSIVE HostNames(_)
HostNames(hs) == IF Len(hs) = 0 THEN <<>> ELSE <<Head(hs).Name>> \o HostNames(Tail(hs))

\* faulty variant of ExpandStep: a tag without hosts gives up what was gathered
ExpandStep_emptyAborts(c, st, arg) ==
  IF HasPrefix(arg, "@")
  THEN LET tag == TrimPrefix(arg)
           hosts == FindHostsByTag(c, tag)
       IN IF Len(hosts) = 0
          THEN [hosts |-> <<>>, tags |-> Append(st.tags, tag),
                warnings |-> st.warnings + 1]
          ELSE [hosts |-> AppendNew(st.hosts, HostNames(hosts)),
                tags |-> Append(st.tags, tag), warnings |-> st.warnings]
  ELSE [hosts |-> AppendNew(st.hosts, <<arg>>), tags |-> st.tags,
        warnings |-> st.warnings]

\* faulty variant of ExpandStep: a literal is appended without the hostSet test
ExpandStep_literalUnchecked(c, st, arg) ==
  IF HasPrefix(arg, "@")
  THEN LET tag == TrimPrefix(arg)
           hosts == FindHostsByTag(c, tag)
       IN IF Len(hosts) = 0
          THEN [hosts |-> st.hosts, tags |-> Append(st.tags, tag),
                warnings |-> st.warnings + 1]
          ELSE [hosts |-> AppendNew(st.hosts, HostNames(hosts)),
                tags |-> Append(st.tags, tag), warnings |-> st.warnings]
  ELSE [hosts |-> Append(st.hosts, arg), tags |-> st.tags,
        warnings |-> st.warnings]

\* faulty variant of ExpandStep: a tag with hosts is not added to tagsFound
ExpandStep_tagNotKept(c, st, arg) ==
  IF HasPrefix(arg, "@")
  THEN LET tag == TrimPrefix(arg)
           hosts == FindHostsByTag(c, tag)
       IN IF Len(hosts) = 0
          THEN [hosts |-> st.hosts, tags |-> Append(st.tags, tag),
                warnings |-> st.warnings + 1]
          ELSE [hosts |-> AppendNew(st.hosts, HostNames(hosts)),
                tags |-> st.tags, warnings |-> st.warnings]
  ELSE [hosts |-> AppendNew(st.hosts, <<arg>>), tags |-> st.tags,
        warnings |-> st.warnings]

\* one iteration of the loop over hostArgs; st = [hosts, tags, warnings]
ExpandStep(c, st, arg) ==
  IF HasPrefix(arg, "@")
  THEN LET tag == TrimPrefix(arg)
           hosts == FindHostsByTag(c, tag)
       IN IF Len(hosts) = 0
          THEN [hosts |-> st.hosts, tags |-> Append(st.tags, tag),
                warnings |-> st.warnings + 1]
          ELSE [hosts |-> AppendNew(st.hosts, HostNames(hosts)),
                tags |-> Append(st.tags, tag), warnings |-> st.warnings]
  ELSE [hosts |-> AppendNew(st.hosts, <<arg>>), tags |-> st.tags,
        warnings |-> st.warnings]

RECURSIVE ExpandFrom(_, _, _)
ExpandFrom(c, st, args) ==
  IF Len(args) = 0 THEN st
  ELSE ExpandFrom(c, ExpandStep(c, st, Head(args)), Tail(args))

expandTagsToHosts(c, hostArgs) ==
  ExpandFrom(c, [hosts |-> <<>>, tags |-> <<>>, warnings |-> 0], hostArgs)

\* ------------------------------------------------------- SSHConnection
NewSSHConnection(user, host, port, sshKeys, password, jumpHost, jumpHostSSHKeys, command, proxyEnabled, proxyAddress, proxyPort) ==
  [User |-> user, Host |-> host, Port |-> port, SSHKeys |-> sshKeys,
   Password |-> password, JumpHost |-> jumpHost,
   JumpHostSSHKeys |-> jumpHostSSHKeys, Command |-> command,
   ProxyEnabled |-> proxyEnabled, ProxyAddress |-> proxyAddress,
   ProxyPort |-> proxyPort, InteractivePasswordAllowed |-> TRUE]

\* the local key files: os.ReadFile and ssh.ParsePrivateKey succeed on these
UsableKeyFiles == {Home \o <<"k1">>, Home \o <<"k2">>, p_kj}

\* the signer ssh.ParsePrivateKey makes of a key file, named after the file
SignerOf(path) == path[Len(path)]

\* the loop of createAuthMethods over the key paths: the signers that load
RECURSIVE LoadSigners(_)
LoadSigners(paths) ==
  IF Len(paths) = 0 THEN <<>>
  ELSE (IF Head(paths) # <<>> /\ Head(paths) \in UsableKeyFiles
        THEN <<SignerOf(Head(paths))>> ELSE <<>>) \o LoadSigners(Tail(paths))

AuthMethod(kind, keys, pw) == [kind |-> kind, keys |-> keys, pw |-> pw]

\* SSHConnection.getSSHAgentAuth: agent = SSH_AUTH_SOCK is set and connectable
getSSHAgentAuth(agent) == IF agent THEN <<AuthMethod("agent", <<>>, "")>> ELSE <<>>

\* the password branch of createAuthMethods
PasswordMethods(s) ==
  IF s.Password # "" THEN <<AuthMethod("password", <<>>, s.Password)>>
  ELSE IF s.InteractivePasswordAllowed THEN <<AuthMethod("callback", <<>>, "")>>
  ELSE <<>>

\* faulty variant of createAuthMethods: the password methods come first
createAuthMethods_passwordFirst(s, sshKeyPaths, agent) ==
  LET signers == LoadSigners(sshKeyPaths)
  IN PasswordMethods(s)
     \o (IF Len(signers) > 0 THEN <<AuthMethod("publickeys", signers, "")>> ELSE <<>>)
     \o getSSHAgentAuth(agent)

\* SSHConnection.createAuthMethods
createAuthMethods(s, sshKeyPaths, agent) ==
  LET signers == LoadSigners(sshKeyPaths)
  IN (IF Len(signers) > 0 THEN <<AuthMethod("publickeys", signers, "")>> ELSE <<>>)
     \o getSSHAgentAuth(agent)
     \o PasswordMethods(s)

\* createSSHConfig / createSSHConfigWithContext
createSSHConfig(s, agent) ==
  [User |-> s.User, Auth |-> createAuthMethods(s, s.SSHKeys, agent)]

\* the credentials a list of auth methods holds: signers and preset passwords
CredsOf(methods) ==
  UNION { Range(methods[i].keys) : i \in 1..Len(methods) }
  \cup { methods[i].pw : i \in {j \in 1..Len(methods) : methods[j].kind = "password"} }

HasCallback(methods) == \E i \in 1..Len(methods) : methods[i].kind = "callback"

\* The handshake of golang.org/x/crypto/ssh: the methods are tried in list
\* order until the server accepts one.  accepts = the credentials the server
\* accepts for the user; typed = what the user types when the callback asks.
\* The agent wrapper's Signers() returns no signer, so it never authenticates.
RECURSIVE Handshake(_, _, _)
Handshake(methods, accepts, typed) ==
  IF Len(methods) = 0 THEN [ok |-> FALSE, prompts |-> 0]
  ELSE LET m == Head(methods)
           rest == Handshake(Tail(methods), accepts, typed)
       IN CASE m.kind = "publickeys" ->
                 IF Range(m.keys) \cap accepts # {} THEN [ok |-> TRUE, prompts |-> 0]
                 ELSE rest
            [] m.kind = "agent" -> rest
            [] m.kind = "password" ->
                 IF m.pw \in accepts THEN [ok |-> TRUE, prompts |-> 0] ELSE rest
            [] m.kind = "callback" ->
                 IF typed \in accepts THEN [ok |-> TRUE, prompts |-> 1]
                 ELSE [ok |-> rest.ok, prompts |-> rest.prompts + 1]

DialResult(err, open, prompts, jumpAuth) ==
  [err |-> err, open |-> open, prompts |-> prompts, jumpAuth |-> jumpAuth]

\* dial, channel to the endpoint failed: jumpClient.Close()
ChannelFailureCleanup(open) == open \ {"jumpClient"}

\* faulty variant of HandshakeFailureCleanup: only conn.Close()
HandshakeFailureCleanup_leakJump(open) == open \ {"conn"}

\* dial, endpoint handshake failed: conn.Close(); jumpClient.Close()
HandshakeFailureCleanup(open) == open \ {"conn", "jumpClient"}

\* dial without a jump host: ssh.Dial("tcp", address, config); hs is the
\* handshake with the endpoint
DialDirect(nd, hs) ==
  IF ~nd.reach THEN DialResult(<<"dial tcp">>, {}, 0, <<>>)
  ELSE IF ~hs.ok THEN DialResult(<<"unable to authenticate">>, {}, hs.prompts, <<>>)
  ELSE DialResult(Nil, {"client"}, hs.prompts, <<>>)

\* dial through the jump host: jhs and hs are the handshakes with the jump
\* host and with the endpoint
DialViaJump(nd, jumpAuthMethods, jhs, hs) ==
  IF ~nd.jumpTcp
  THEN DialResult(Wrap("erro ao conectar ao Jump Host", <<"dial tcp">>),
                  {}, 0, jumpAuthMethods)
  ELSE IF ~jhs.ok
  THEN DialResult(Wrap("erro ao conectar ao Jump Host", <<"unable to authenticate">>),
                  {}, jhs.prompts, jumpAuthMethods)
  ELSE IF ~nd.reach
  THEN DialResult(Wrap("erro ao conectar ao host atraves do Jump Host", <<"dial tcp">>),
                  ChannelFailureCleanup({"jumpClient"}), jhs.prompts, jumpAuthMethods)
  ELSE IF ~hs.ok
  THEN DialResult(Wrap("erro ao criar conexao SSH", <<"unable to authenticate">>),
                  HandshakeFailureCleanup({"jumpClient", "conn"}),
                  jhs.prompts + hs.prompts, jumpAuthMethods)
  ELSE DialResult(Nil, {"jumpClient", "conn", "client"},
                  jhs.prompts + hs.prompts, jumpAuthMethods)

\* the jump host's own auth methods and config, then DialViaJump
DialJump(nd, jumpAuthMethods, hs) ==
  DialViaJump(nd, jumpAuthMethods,
              Handshake(jumpAuthMethods, nd.jumpAccepts, nd.typed), hs)

\* SSHConnection.dial.  nd is what the network and the user do during the
\* call: [agent, jumpTcp, jumpAccepts, reach, accepts, typed].  The result's
\* open is the set of connections dial leaves open when it returns.
dial(s, config, nd) ==
  IF s.JumpHost.isNil
  THEN DialDirect(nd, Handshake(config.Auth, nd.accepts, nd.typed))
  ELSE DialJump(nd, createAuthMethods(s, s.JumpHostSSHKeys, nd.agent),
                Handshake(config.Auth, nd.accepts, nd.typed))

\* SSHConnection.installPublicKeyIfNeeded.  ni = [pubFile, session, check,
\* installSession, install]: whether <key>.pub is readable and non-empty,
\* whether the sessions open, what grep -Fxq answers, whether the append runs.
installPublicKeyIfNeeded(s, ni) ==
  IF Len(s.SSHKeys) = 0 THEN [err |-> Nil, appended |-> FALSE]
  ELSE IF ~ni.pubFile THEN [err |-> Nil, appended |-> FALSE]
  ELSE IF ~ni.session
       THEN [err |-> <<"erro ao criar sessao para instalacao de chave">>, appended |-> FALSE]
  ELSE IF ni.check = "present" THEN [err |-> Nil, appended |-> FALSE]
  ELSE IF ni.check = "error"
       THEN [err |-> <<"erro ao verificar chave existente">>, appended |-> FALSE]
  ELSE IF ~ni.installSession
       THEN [err |-> <<"erro ao criar sessao para instalacao">>, appended |-> FALSE]
  ELSE IF ~ni.install
       THEN [err |-> <<"erro ao instalar chave publica">>, appended |-> FALSE]
  ELSE [err |-> Nil, appended |-> TRUE]

\* what session.Run leaves in one of the two bytes.Buffer sinks: the data of
\* the chunks the peer emitted on that stream, in emission order
RECURSIVE Captured(_, _)
Captured(emit, stream) ==
  IF Len(emit) = 0 THEN <<>>
  ELSE (IF Head(emit).stream = stream THEN <<Head(emit).data>> ELSE <<>>)
       \o Captured(Tail(emit), stream)

ExecResult(output, exitCode, err, d, open) ==
  [output |-> output, exitCode |-> exitCode, err |-> err,
   dialed |-> d.err = Nil, dialErr |-> d.err, dialOpen |-> d.open,
   prompts |-> d.prompts, jumpAuth |-> d.jumpAuth, open |-> open]

\* faulty variant of CombineOutput: stderr first
CombineOutput_stderrFirst(stdout, stderr) ==
  IF Len(stderr) > 0 THEN stderr \o stdout ELSE stdout

\* ExecuteCommandWithOutput: stdout.String(), then stderr.String() appended
CombineOutput(stdout, stderr) ==
  IF Len(stderr) > 0 THEN stdout \o stderr ELSE stdout

\* faulty variant of ExitOutcome: a nonzero remote exit is returned as an error
ExitOutcome_exitIsError(end, status) ==
  IF end = "exit" /\ status = 0 THEN [exitCode |-> 0, err |-> Nil]
  ELSE IF end = "exit"
  THEN [exitCode |-> status, err |-> <<"comando encerrado com codigo">>]
  ELSE [exitCode |-> -1,
        err |-> Wrap("erro ao executar comando", <<"wait: remote command exited without exit status">>)]

\* faulty variant of ExitOutcome: an error of Run that is no *ssh.ExitError is dropped
ExitOutcome_swallowTransport(end, status) ==
  IF end = "exit" THEN [exitCode |-> status, err |-> Nil]
  ELSE [exitCode |-> 0, err |-> Nil]

\* ExecuteCommandWithOutput, after session.Run: the exit code and the error.
\* end = "exit": the peer reported the exit status (Run returns nil for 0 and
\* *ssh.ExitError otherwise); end = "transport": any other error of Run.
ExitOutcome(end, status) ==
  IF end = "exit" /\ status = 0 THEN [exitCode |-> 0, err |-> Nil]
  ELSE IF end = "exit" THEN [exitCode |-> status, err |-> Nil]
  ELSE [exitCode |-> -1,
        err |-> Wrap("erro ao executar comando", <<"wait: remote command exited without exit status">>)]

\* faulty variant of ExecuteDialed: an error of installPublicKeyIfNeeded is returned
ExecuteDialed_installFatal(r, d, installed, afterClose) ==
  IF d.err # Nil
  THEN ExecResult(<<>>, -1, Wrap("erro ao conectar", d.err), d, d.open)
  ELSE IF installed.err # Nil
  THEN ExecResult(<<>>, -1, Wrap("erro ao instalar chave", installed.err), d, afterClose)
  ELSE IF ~r.session
  THEN ExecResult(<<>>, -1, Wrap("erro ao criar sessao", <<"open failed">>), d, afterClose)
  ELSE ExecResult(CombineOutput(Captured(r.emit, "stdout"), Captured(r.emit, "stderr")),
                  ExitOutcome(r.end, r.status).exitCode,
                  ExitOutcome(r.end, r.status).err, d, afterClose)

\* ExecuteCommandWithOutput after dial returned d: the deferred
\* client.Close() closes the client and the connection it runs over; the
\* result of installPublicKeyIfNeeded is discarded
ExecuteDialed(r, d, installed, afterClose) ==
  IF d.err # Nil
  THEN ExecResult(<<>>, -1, Wrap("erro ao conectar", d.err), d, d.open)
  ELSE IF ~r.session
  THEN ExecResult(<<>>, -1, Wrap("erro ao criar sessao", <<"open failed">>), d, afterClose)
  ELSE ExecResult(CombineOutput(Captured(r.emit, "stdout"), Captured(r.emit, "stderr")),
                  ExitOutcome(r.end, r.status).exitCode,
                  ExitOutcome(r.end, r.status).err, d, afterClose)

ExecuteWith(s, n, d) ==
  ExecuteDialed(n.r, d, installPublicKeyIfNeeded(s, n.i), d.open \ {"client", "conn"})

\* SSHConnection.ExecuteCommandWithOutput.  n = [d, i, r]: d for dial, i for
\* installPublicKeyIfNeeded, r = [session, emit, end, status] for the command:
\* whether the session opens, the chunks the peer emits, and whether the run
\* ends with the remote exit status or with a transport failure.
ExecuteCommandWithOutput(s, n) ==
  ExecuteWith(s, n, dial(s, createSSHConfig(s, n.d.agent), n.d))

\* ------------------------------------------- the interactive session
\* The terminal during startInteractiveSession.  te = [prior, raw, pty, shell,
\* wait, listen]: the state term.MakeRaw finds, whether MakeRaw, RequestPty
\* and Shell succeed, how Wait ends ("clean", "exit" with a nonzero status,
\* "transport"), and whether client.Listen of the reverse tunnel succeeds.
TermEnv(prior, raw, pty, shell, wait, listen) ==
  [prior |-> prior, raw |-> raw, pty |-> pty, shell |-> shell,
   wait |-> wait, listen |-> listen]

\* term.MakeRaw(fd): the terminal is raw, the state it had is returned
MakeRaw(state) == [state |-> "raw", oldState |-> state]

\* faulty variant of Restore: the terminal is left as it is
Restore_skipped(state, oldState) == state

\* term.Restore(fd, oldState), deferred: the terminal is in oldState again
Restore(state, oldState) == oldState

\* startInteractiveSession after MakeRaw succeeded: the exit path taken
InteractivePath(te) ==
  IF ~te.pty THEN "pty"
  ELSE IF ~te.shell THEN "shell"
  ELSE te.wait

\* startInteractiveSession after MakeRaw succeeded: the error returned
InteractiveError(path) ==
  CASE path = "pty" -> Wrap("erro ao solicitar PTY", <<"pty request failed">>)
    [] path = "shell" -> Wrap("erro ao iniciar shell", <<"shell request failed">>)
    [] path = "exit" -> <<"sessao encerrada com codigo">>
    [] path = "transport" -> Wrap("erro durante sessao", <<"wait: remote command exited without exit status">>)
    [] OTHER -> Nil

InteractiveResult(err, rawEntered, path, tty) ==
  [err |-> err, rawEntered |-> rawEntered, path |-> path, tty |-> tty]

\* startInteractiveSession once the terminal is raw: every return runs the
\* deferred term.Restore
InteractiveRaw(te, raw) ==
  InteractiveResult(InteractiveError(InteractivePath(te)), TRUE, InteractivePath(te),
                    Restore(raw.state, raw.oldState))

\* SSHConnection.startInteractiveSession
startInteractiveSession(te) ==
  IF ~te.raw
  THEN InteractiveResult(Wrap("erro ao configurar terminal", <<"inappropriate ioctl">>),
                         FALSE, "makeraw", te.prior)
  ELSE InteractiveRaw(te, MakeRaw(te.prior))

NoInteractive == InteractiveResult(Nil, FALSE, "none", "none")

\* what Connect and ExecuteCommand return and leave: the error, whether the
\* main session was requested and ran, the warning written for a failed key
\* installation, the reverse tunnel, the terminal, what the command wrote to
\* the terminal, and the remote exit status
SessionResult(err, started, warned, proxy, it, shown, open) ==
  [err |-> err, started |-> started, warned |-> warned, proxy |-> proxy,
   it |-> it, shown |-> shown, open |-> open]

NoSession == SessionResult(Nil, FALSE, FALSE, "off", NoInteractive, <<>>, {})

\* Connect: setupRemoteForwarding when the proxy is enabled; a failure to
\* listen on the remote side is a warning
ProxyTunnel(s, listen) ==
  IF ~s.ProxyEnabled THEN "off" ELSE IF listen THEN "active" ELSE "warned"

\* Connect, from NewSession on, with the outcome it of startInteractiveSession
ConnectSession(s, n, te, installed, afterClose, it) ==
  IF ~n.r.session
  THEN SessionResult(Wrap("erro ao criar sessao", <<"open failed">>), FALSE,
                     installed.err # Nil, ProxyTunnel(s, te.listen),
                     InteractiveResult(Nil, FALSE, "none", te.prior), <<>>, afterClose)
  ELSE SessionResult(IF it.err # Nil THEN Wrap("erro na sessao interativa", it.err) ELSE Nil,
                     TRUE, installed.err # Nil, ProxyTunnel(s, te.listen),
                     it, <<>>, afterClose)

\* Connect after dial returned d
ConnectDialed(s, n, te, d) ==
  IF d.err # Nil
  THEN SessionResult(Wrap("erro ao conectar", d.err), FALSE, FALSE, "off",
                     InteractiveResult(Nil, FALSE, "none", te.prior), <<>>, d.open)
  ELSE ConnectSession(s, n, te, installPublicKeyIfNeeded(s, n.i),
                      d.open \ {"client", "conn"}, startInteractiveSession(te))

\* SSHConnection.Connect
Connect(s, n, te) ==
  ConnectDialed(s, n, te, dial(s, createSSHConfig(s, n.d.agent), n.d))

\* faulty variant of CommandError: a remote exit is no error, whatever the status
CommandError_exitIsClean(end, status) ==
  IF end = "exit" THEN Nil
  ELSE Wrap("erro ao executar comando", <<"wait: remote command exited without exit status">>)

\* ExecuteCommand, after session.Run: a nonzero remote exit is an error too
CommandError(end, status) ==
  IF end = "exit" /\ status = 0 THEN Nil
  ELSE IF end = "exit" THEN <<"comando encerrado com codigo">>
  ELSE Wrap("erro ao executar comando", <<"wait: remote command exited without exit status">>)

\* ExecuteCommand, from NewSession on: stdout and stderr are the terminal, so
\* the chunks show in the order the peer emitted them
CommandSession(r, installed, afterClose) ==
  IF ~r.session
  THEN SessionResult(Wrap("erro ao criar sessao", <<"open failed">>), FALSE,
                     installed.err # Nil, "off", NoInteractive, <<>>, afterClose)
  ELSE SessionResult(CommandError(r.end, r.status), TRUE, installed.err # Nil, "off",
                     NoInteractive, [k \in 1..Len(r.emit) |-> r.emit[k].data], afterClose)

\* ExecuteCommand after dial returned d
CommandDialed(s, n, d) ==
  IF d.err # Nil
  THEN SessionResult(Wrap("erro ao conectar", d.err), FALSE, FALSE, "off",
                     NoInteractive, <<>>, d.open)
  ELSE CommandSession(n.r, installPublicKeyIfNeeded(s, n.i), d.open \ {"client", "conn"})

\* SSHConnection.ExecuteCommand
ExecuteCommand(s, n) ==
  CommandDialed(s, n, dial(s, createSSHConfig(s, n.d.agent), n.d))

\* ------------------------------------------------------------ the network
\* What the hosts of the runs below do.  Variant v picks between the two
\* behaviours of h2 and of h4; every address not listed is unreachable.
Chunk(stream, data) == [stream |-> stream, data |-> data]

RunEnv(session, emit, end, status) ==
  [session |-> session, emit |-> emit, end |-> end, status |-> status]

InstallEnv(pubFile, session, check, installSession, install) ==
  [pubFile |-> pubFile, session |-> session, check |-> check,
   installSession |-> installSession, install |-> install]

DialEnv(agent, jumpTcp, jumpAccepts, reach, accepts, typed) ==
  [agent |-> agent, jumpTcp |-> jumpTcp, jumpAccepts |-> jumpAccepts,
   reach |-> reach, accepts |-> accepts, typed |-> typed]

NoEnv == [d |-> DialEnv(FALSE, FALSE, {}, FALSE, {}, ""),
          i |-> InstallEnv(FALSE, FALSE, "present", FALSE, FALSE),
          r |-> RunEnv(FALSE, <<>>, "exit", 0)]

Variants == {1, 2}

JumpTcp(jumpHost) == jumpHost.Host = a_j1
JumpAccepts(jumpHost) == IF jumpHost.Host = a_j1 THEN {"kj"} ELSE {}

NetAt(v, hostname, jumpHost) ==
  [d |-> DialEnv(TRUE, JumpTcp(jumpHost), JumpAccepts(jumpHost),
                 hostname \in {a_h1, a_h2} \/ (hostname = a_h4 /\ v = 1),
                 CASE hostname = a_h1 -> {"k1"}
                   [] hostname = a_h2 -> {"k2", "pw"}
                   [] hostname = a_h4 -> {"pw"}
                   [] OTHER -> {},
                 "pw"),
   i |-> InstallEnv(hostname \in {a_h1, a_h2}, TRUE,
                    IF hostname = a_h1 THEN "absent" ELSE "present", TRUE, TRUE),
   r |-> CASE hostname = a_h1 ->
                RunEnv(TRUE, <<Chunk("stderr", "e"), Chunk("stdout", "o")>>, "exit", 0)
           [] hostname = a_h2 /\ v = 1 ->
                RunEnv(TRUE, <<Chunk("stdout", "o")>>, "exit", 3)
           [] hostname = a_h2 /\ v = 2 ->
                RunEnv(TRUE, <<Chunk("stdout", "o")>>, "transport", 0)
           [] OTHER -> RunEnv(TRUE, <<>>, "exit", 0)]

\* -------------------------------------------------------- executeOnHost
HostResult(host, success, output, error, exitCode, shouldAutoCreate, hostname, port) ==
  [Host |-> host, Success |-> success, Output |-> output, Error |-> error,
   ExitCode |-> exitCode, ShouldAutoCreate |-> shouldAutoCreate,
   Hostname |-> hostname, Port |-> port]

NoExec ==
  [output |-> <<>>, exitCode |-> 0, err |-> Nil, dialed |-> FALSE,
   dialErr |-> Nil, dialOpen |-> {}, prompts |-> 0, jumpAuth |-> <<>>, open |-> {}]

NoConn ==
  [User |-> <<>>, Host |-> <<>>, Port |-> 0, SSHKeys |-> <<>>, Password |-> "",
   JumpHost |-> NilJump, JumpHostSSHKeys |-> <<>>, Command |-> "",
   ProxyEnabled |-> FALSE, ProxyAddress |-> "", ProxyPort |-> 0,
   InteractivePasswordAllowed |-> FALSE]

\* faulty variant of LiteralTarget: the address is not looked up in the catalog
LiteralTarget_anyAddress(c, effectiveUser, p, explicit, userFromConfig) ==
  [err |-> Nil,
   username |-> IF explicit THEN p.parsedUser ELSE effectiveUser.Name,
   sshKeys |-> IF ~explicit THEN ExpandKeys(effectiveUser.SSHKeys)
               ELSE IF ~userFromConfig.isNil THEN ExpandKeys(userFromConfig.SSHKeys)
               ELSE <<>>,
   hostname |-> p.hostname, port |-> p.port,
   shouldAutoCreate |-> c.AutoCreate]

\* executeOnHost, the literal branch: user and keys of a parsed token p
LiteralTarget(c, effectiveUser, p, explicit, userFromConfig) ==
  [err |-> Nil,
   username |-> IF explicit THEN p.parsedUser ELSE effectiveUser.Name,
   sshKeys |-> IF ~explicit THEN ExpandKeys(effectiveUser.SSHKeys)
               ELSE IF ~userFromConfig.isNil THEN ExpandKeys(userFromConfig.SSHKeys)
               ELSE <<>>,
   hostname |-> p.hostname, port |-> p.port,
   shouldAutoCreate |-> c.AutoCreate /\ FindHostByAddress(c, p.hostname) = 0]

\* faulty variant of ResolveWith: a token that parses is taken as a literal
\* before the catalog is looked at
ResolveWith_literalFirst(c, effectiveUser, h, p) ==
  IF p.err = Nil
  THEN LiteralTarget(c, effectiveUser, p,
                     p.parsedUser # <<>> /\ p.parsedUser # effectiveUser.Name,
                     FindUser(c, p.parsedUser))
  ELSE IF h # 0
  THEN [err |-> Nil, username |-> effectiveUser.Name,
        sshKeys |-> ExpandKeys(effectiveUser.SSHKeys),
        hostname |-> c.Hosts[h].Host, port |-> c.Hosts[h].Port,
        shouldAutoCreate |-> FALSE]
  ELSE [err |-> p.err, username |-> effectiveUser.Name,
        sshKeys |-> ExpandKeys(effectiveUser.SSHKeys),
        hostname |-> <<>>, port |-> 0, shouldAutoCreate |-> FALSE]

\* executeOnHost, the resolution: h = FindHost(hostArg), p = the parsed token
ResolveWith(c, effectiveUser, h, p) ==
  IF h # 0
  THEN [err |-> Nil, username |-> effectiveUser.Name,
        sshKeys |-> ExpandKeys(effectiveUser.SSHKeys),
        hostname |-> c.Hosts[h].Host, port |-> c.Hosts[h].Port,
        shouldAutoCreate |-> FALSE]
  ELSE IF p.err # Nil
  THEN [err |-> p.err, username |-> effectiveUser.Name,
        sshKeys |-> ExpandKeys(effectiveUser.SSHKeys),
        hostname |-> <<>>, port |-> 0, shouldAutoCreate |-> FALSE]
  ELSE LiteralTarget(c, effectiveUser, p,
                     p.parsedUser # <<>> /\ p.parsedUser # effectiveUser.Name,
                     FindUser(c, p.parsedUser))

\* executeOnHost, the resolution of the token: catalog entry by name, else a
\* literal [user@]host[:port]
ResolveToken(c, hostArg, effectiveUser) ==
  ResolveWith(c, effectiveUser, FindHost(c, hostArg),
              parseDirectConnection(hostArg, effectiveUser))

\* cmd.Connect (single endpoint), the first key of a user's list, "" for none
FirstKey(u) == IF Len(u.SSHKeys) > 0 THEN ExpandHomePath(u.SSHKeys[1]) ELSE <<>>

\* cmd.Connect, the literal branch: p is the parsed token
DirectLiteral(c, effectiveUser, p, explicit, userFromConfig) ==
  [err |-> Nil,
   username |-> IF explicit THEN p.parsedUser ELSE effectiveUser.Name,
   sshKey |-> IF ~explicit THEN FirstKey(effectiveUser)
              ELSE IF userFromConfig.isNil THEN <<>>
              ELSE IF Len(userFromConfig.SSHKeys) > 0 THEN FirstKey(userFromConfig)
              ELSE FirstKey(effectiveUser),
   hostname |-> p.hostname, port |-> p.port,
   shouldAutoCreate |-> c.AutoCreate /\ FindHostByAddress(c, p.hostname) = 0]

\* cmd.Connect, the resolution: h = FindHost(hostArg), p = the parsed token;
\* a token that does not parse ends the process (os.Exit(1))
DirectWith(c, effectiveUser, h, p) ==
  IF h # 0
  THEN [err |-> Nil, username |-> effectiveUser.Name,
        sshKey |-> FirstKey(effectiveUser),
        hostname |-> c.Hosts[h].Host, port |-> c.Hosts[h].Port,
        shouldAutoCreate |-> FALSE]
  ELSE IF p.err # Nil
  THEN [err |-> p.err, username |-> effectiveUser.Name,
        sshKey |-> FirstKey(effectiveUser),
        hostname |-> <<>>, port |-> 0, shouldAutoCreate |-> FALSE]
  ELSE DirectLiteral(c, effectiveUser, p,
                     p.parsedUser # <<>> /\ p.parsedUser # effectiveUser.Name,
                     FindUser(c, p.parsedUser))

ResolveDirect(c, hostArg, effectiveUser) ==
  DirectWith(c, effectiveUser, FindHost(c, hostArg),
             parseDirectConnection(hostArg, effectiveUser))

\* faulty variant of DisablePrompt: the flag keeps the default of NewSSHConnection
DisablePrompt_keepDefault(sshConn) == sshConn

\* executeOnHost: sshConn.InteractivePasswordAllowed = false
DisablePrompt(sshConn) == [sshConn EXCEPT !.InteractivePasswordAllowed = FALSE]

\* executeOnHost: the hint appended to the error text
Hint(askPassword, password, sshKeys) ==
  IF ~askPassword /\ password = "" /\ Len(sshKeys) = 0
  THEN <<"DICA: Use a opcao -a">>
  ELSE IF ~askPassword /\ password = "" /\ Len(sshKeys) > 0
  THEN <<"DICA: Se a chave SSH nao estiver instalada, use -a">>
  ELSE <<>>

\* faulty variant of FailedResult: the error text is left out
FailedResult_noError(hostArg, e, askPassword, password, sshKeys) ==
  HostResult(hostArg, FALSE, e.output, <<>>, e.exitCode, FALSE, <<>>, 0)

\* executeOnHost: the HostResult of a failed ExecuteCommandWithOutput
FailedResult(hostArg, e, askPassword, password, sshKeys) ==
  HostResult(hostArg, FALSE, e.output, e.err \o Hint(askPassword, password, sshKeys),
             e.exitCode, FALSE, <<>>, 0)

\* executeOnHost, from the outcome e of ExecuteCommandWithOutput on: the
\* HostResult, with the connection that was built, the network n it met and
\* what the call did
ResultOf(hostArg, t, sshConn, n, e, askPassword, password) ==
  IF t.err # Nil
  THEN [result |-> HostResult(hostArg, FALSE, <<>>, Wrap("Formato invalido", t.err),
                              0, FALSE, <<>>, 0),
        ran |-> FALSE, conn |-> NoConn, net |-> NoEnv, exec |-> NoExec]
  ELSE IF e.err # Nil
  THEN [result |-> FailedResult(hostArg, e, askPassword, password, t.sshKeys),
        ran |-> TRUE, conn |-> sshConn, net |-> n, exec |-> e]
  ELSE [result |-> HostResult(hostArg, TRUE, e.output, <<>>, e.exitCode,
                              t.shouldAutoCreate, t.hostname, t.port),
        ran |-> TRUE, conn |-> sshConn, net |-> n, exec |-> e]

\* executeOnHost, from NewSSHConnection on, on network n
ExecuteOn(hostArg, t, sshConn, n, askPassword, password) ==
  ResultOf(hostArg, t, sshConn, n, ExecuteCommandWithOutput(sshConn, n),
           askPassword, password)

\* executeOnHost, from the resolved target t on, under network variant v
ExecuteResolved(c, hostArg, t, jumpHost, password, command, askPassword, v) ==
  ExecuteOn(hostArg, t,
            DisablePrompt(
              NewSSHConnection(t.username, t.hostname, t.port, t.sshKeys, password,
                               jumpHost, GetJumpHostSSHKeys(c, jumpHost), command,
                               FALSE, "", 0)),
            NetAt(v, t.hostname, jumpHost), askPassword, password)

executeOnHost(c, hostArg, effectiveUser, jumpHost, password, command, askPassword, v) ==
  ExecuteResolved(c, hostArg, ResolveToken(c, hostArg, effectiveUser),
                  jumpHost, password, command, askPassword, v)

\* ------------------------------------------------------------------ state
VARIABLES
  cfg,            \* the ConfigFile
  hostArgs,       \* the host arguments of the invocation
  selectedUser,   \* the user of flag -u, or NilUser
  jumpHost,       \* the jump host of flag -j, or NilJump
  askPassword,    \* flag -a
  pc,             \* where ConnectMultiple is
  exitMsg,        \* the message of os.Exit(1), "" while running
  effectiveUser,
  expandedHosts,
  tagsFound,
  warnings,       \* empty-tag warnings written to stderr
  password,
  prompts,        \* password prompts ConnectMultiple made on the terminal
  next,           \* index of the next host of the spawn loop
  wg,             \* the sync.WaitGroup counter
  results,        \* the buffered channel
  closed,         \* whether the channel is closed
  closer,         \* where the goroutine of wg.Wait / close(results) is
  allResults,
  displayed,      \* what displayResults summarised
  wpc,            \* where each worker goroutine is
  wres,           \* what executeOnHost returned to each worker
  sc,             \* the SSHConnection of a single call
  scenv,          \* the network during that call
  scret,          \* what the call returned
  scpc,           \* which call was made
  mode,           \* the relay that runs: "forward" (PortForwardSession) or "proxy"
  rpc,            \* where Start (or the Connect that owns the tunnel) is
  done,           \* whether pf.done is closed
  listener,       \* the listener: "none", "open", "closed"
  client,         \* the ssh.Client the relay runs over: "none", "open", "closed"
  apc,            \* where the accept loop is
  activeConns,
  totalConns,
  bytesSent,
  bytesReceived,
  stats,          \* what Stop printed
  conns,          \* the accepted connections and their workers
  token,          \* the token given to one resolution
  tokenUser,      \* the effective user of that resolution
  resolved,       \* what the resolution returned
  store,          \* lines of the remote authorized_keys that equal the public key
  ipc             \* where each session's installPublicKeyIfNeeded is

mainVars == <<pc, exitMsg, effectiveUser, expandedHosts, tagsFound, warnings,
              password, prompts, next, allResults, displayed>>
inputVars == <<hostArgs, selectedUser, jumpHost, askPassword>>
chanVars == <<wg, results, closed, closer>>
workerVars == <<wpc, wres>>
connVars == <<sc, scenv, scret, scpc>>
relayVars == <<mode, rpc, done, listener, client, apc, activeConns, totalConns,
               bytesSent, bytesReceived, stats, conns>>
parseVars == <<token, tokenUser, resolved>>
installVars == <<store, ipc>>
vars == <<cfg, inputVars, mainVars, chanVars, workerVars, connVars, relayVars, parseVars,
          installVars>>
fanVars == <<cfg, inputVars, mainVars, chanVars, workerVars, connVars>>

\* ----------------------------------------------------------------- inputs
tok_tagweb == <<"@","w","e","b">>
tok_tagno  == <<"@","n","o">>
tok_bo_h4  == <<"b","o","@","h","4">>
tok_bad    == <<"h",":","x">>

TokenPool == {n_w1, tok_tagweb, tok_tagno, tok_bo_h4, tok_bad}

ArgLists == UNION { [1..k -> TokenPool] : k \in 1..MaxArgs }

TypedPasswords == {"", "pw"}

NoWorker == [result |-> HostResult(<<>>, FALSE, <<>>, <<>>, 0, FALSE, <<>>, 0),
             ran |-> FALSE, conn |-> NoConn, net |-> NoEnv, exec |-> NoExec]

NoRet == [op |-> "none", exec |-> NoExec,
          dial |-> DialResult(Nil, {}, 0, <<>>), config |-> [User |-> <<>>, Auth |-> <<>>],
          run |-> NoSession, te |-> TermEnv("none", FALSE, FALSE, FALSE, "none", FALSE)]

ConnIdle ==
  /\ sc = NoConn /\ scenv = NoEnv /\ scret = NoRet /\ scpc = "none"

NoStats == [printed |-> FALSE]

RelayIdle ==
  /\ mode = "none" /\ rpc = "none" /\ done = FALSE
  /\ listener = "none" /\ client = "none" /\ apc = "unborn"
  /\ activeConns = 0 /\ totalConns = 0 /\ bytesSent = 0 /\ bytesReceived = 0
  /\ stats = NoStats /\ conns = <<>>

\* no session is installing a key
InstallIdle == store = 0 /\ ipc = <<>>

ParseIdle ==
  /\ token = <<>> /\ tokenUser = NilUser /\ resolved = [op |-> "none"]

\* the fan-out run is not being made
FanRest ==
  /\ hostArgs = <<>> /\ selectedUser = NilUser /\ jumpHost = NilJump
  /\ askPassword = FALSE
  /\ pc = "none" /\ exitMsg = ""
  /\ effectiveUser = NilUser
  /\ expandedHosts = <<>> /\ tagsFound = <<>> /\ warnings = 0
  /\ password = "" /\ prompts = 0 /\ next = 1
  /\ wg = 0 /\ results = <<>> /\ closed = FALSE /\ closer = "unborn"
  /\ allResults = <<>>
  /\ displayed = [shown |-> FALSE, success |-> 0, failure |-> 0, total |-> 0]
  /\ wpc = <<>> /\ wres = <<>>

FanIdle == cfg = Catalog(<<User_al, User_op, User_bo>>, TRUE) /\ FanRest

Init ==
  /\ cfg \in Catalogs
  /\ hostArgs \in ArgLists
  /\ selectedUser = NilUser
  /\ jumpHost \in {NilJump, Jump_ok}
  /\ askPassword \in BOOLEAN
  /\ pc = "start" /\ exitMsg = ""
  /\ effectiveUser = NilUser
  /\ expandedHosts = <<>> /\ tagsFound = <<>> /\ warnings = 0
  /\ password = "" /\ prompts = 0 /\ next = 1
  /\ wg = 0 /\ results = <<>> /\ closed = FALSE /\ closer = "unborn"
  /\ allResults = <<>>
  /\ displayed = [shown |-> FALSE, success |-> 0, failure |-> 0, total |-> 0]
  /\ wpc = <<>> /\ wres = <<>>
  /\ ConnIdle /\ RelayIdle /\ ParseIdle /\ InstallIdle

\* ------------------------------------------------------- ConnectMultiple
\* faulty variant of NoValidHosts: the empty expansion is not tested
NoValidHosts_never(hosts) == FALSE

\* ConnectMultiple: len(expandedHosts) == 0
NoValidHosts(hosts) == Len(hosts) = 0

\* ConnectMultiple up to the banner: effective user, tag expansion
Begin ==
  /\ pc = "start"
  /\ LET eu == GetEffectiveUser(cfg, selectedUser)
         ex == expandTagsToHosts(cfg, hostArgs)
     IN IF eu.isNil
        THEN /\ pc' = "exit" /\ exitMsg' = "Nenhum usuario configurado"
             /\ UNCHANGED <<effectiveUser, expandedHosts, tagsFound, warnings, wpc, wres>>
        ELSE /\ effectiveUser' = eu
             /\ expandedHosts' = ex.hosts
             /\ tagsFound' = ex.tags
             /\ warnings' = ex.warnings
             /\ IF NoValidHosts(ex.hosts)
                THEN /\ pc' = "exit" /\ exitMsg' = "Nenhum host valido especificado"
                     /\ UNCHANGED <<wpc, wres>>
                ELSE /\ pc' = "prompt" /\ exitMsg' = ""
                     /\ wpc' = [i \in 1..Len(ex.hosts) |-> "unborn"]
                     /\ wres' = [i \in 1..Len(ex.hosts) |-> NoWorker]
  /\ UNCHANGED <<cfg, inputVars, relayVars, parseVars, installVars, password, prompts, next, allResults, displayed,
                 chanVars, connVars>>

\* ConnectMultiple: the optional password prompt, then startTime and the channel
AskPassword ==
  /\ pc = "prompt"
  /\ IF askPassword
     THEN \/ \E typed \in TypedPasswords :
               /\ password' = typed /\ prompts' = prompts + 1
               /\ pc' = "spawn" /\ exitMsg' = ""
          \/ /\ prompts' = prompts + 1 /\ password' = ""
             /\ pc' = "exit" /\ exitMsg' = "Erro ao ler senha"
     ELSE /\ password' = "" /\ prompts' = prompts
          /\ pc' = "spawn" /\ exitMsg' = ""
  /\ UNCHANGED <<cfg, inputVars, relayVars, parseVars, installVars, effectiveUser, expandedHosts, tagsFound, warnings,
                 next, allResults, displayed, chanVars, workerVars, connVars>>

\* one iteration of the spawn loop: wg.Add(1); go func(hostArg)
Spawn ==
  /\ pc = "spawn" /\ next <= Len(expandedHosts)
  /\ wg' = wg + 1
  /\ wpc' = [wpc EXCEPT ![next] = "running"]
  /\ next' = next + 1
  /\ UNCHANGED <<cfg, inputVars, relayVars, parseVars, installVars, pc, exitMsg, effectiveUser, expandedHosts, tagsFound,
                 warnings, password, prompts, allResults, displayed,
                 results, closed, closer, wres, connVars>>

\* after the loop: go func() { wg.Wait(); close(results) }(), then the range
StartCloser ==
  /\ pc = "spawn" /\ next > Len(expandedHosts)
  /\ closer' = "waiting"
  /\ pc' = "collect"
  /\ UNCHANGED <<cfg, inputVars, relayVars, parseVars, installVars, exitMsg, effectiveUser, expandedHosts, tagsFound,
                 warnings, password, prompts, next, allResults, displayed,
                 wg, results, closed, workerVars, connVars>>

\* worker: result := executeOnHost(...)
WorkerExecute(i) ==
  /\ wpc[i] = "running"
  /\ \E v \in Variants :
       wres' = [wres EXCEPT ![i] =
                  executeOnHost(cfg, expandedHosts[i], effectiveUser, jumpHost,
                                password, "cmd", askPassword, v)]
  /\ wpc' = [wpc EXCEPT ![i] = "executed"]
  /\ UNCHANGED <<cfg, inputVars, relayVars, parseVars, installVars, mainVars, chanVars, connVars>>

\* worker: results <- result (blocks while the buffer is full)
WorkerPublish(i) ==
  /\ wpc[i] = "executed"
  /\ ~closed
  /\ Len(results) < Len(expandedHosts)
  /\ results' = Append(results, wres[i].result)
  /\ wpc' = [wpc EXCEPT ![i] = "published"]
  /\ UNCHANGED <<cfg, inputVars, relayVars, parseVars, installVars, mainVars, wg, closed, closer, wres, connVars>>

\* faulty variant of WorkerDone: the worker returns without wg.Done()
WorkerDone_noDone(i) ==
  /\ wpc[i] = "published"
  /\ wpc' = [wpc EXCEPT ![i] = "done"]
  /\ UNCHANGED <<cfg, inputVars, relayVars, parseVars, installVars, mainVars, chanVars, wres,
                 connVars>>

\* worker: the deferred wg.Done()
WorkerDone(i) ==
  /\ wpc[i] = "published"
  /\ wg' = wg - 1
  /\ wpc' = [wpc EXCEPT ![i] = "done"]
  /\ UNCHANGED <<cfg, inputVars, relayVars, parseVars, installVars, mainVars, results, closed, closer, wres, connVars>>

\* closer goroutine: wg.Wait() returns, close(results)
CloserClose ==
  /\ closer = "waiting" /\ wg = 0
  /\ closed' = TRUE
  /\ closer' = "done"
  /\ UNCHANGED <<cfg, inputVars, relayVars, parseVars, installVars, mainVars, wg, results, workerVars, connVars>>

\* for result := range results: one received result appended
CollectRecv ==
  /\ pc = "collect" /\ Len(results) > 0
  /\ allResults' = Append(allResults, Head(results))
  /\ results' = Tail(results)
  /\ UNCHANGED <<cfg, inputVars, relayVars, parseVars, installVars, pc, exitMsg, effectiveUser, expandedHosts, tagsFound,
                 warnings, password, prompts, next, displayed,
                 wg, closed, closer, workerVars, connVars>>

\* faulty variant of CollectEnd: the collector leaves on an empty channel
\* without waiting for close(results)
CollectEnd_noWait ==
  /\ pc = "collect" /\ Len(results) = 0
  /\ pc' = "measured"
  /\ UNCHANGED <<cfg, inputVars, relayVars, parseVars, installVars, exitMsg, effectiveUser, expandedHosts, tagsFound,
                 warnings, password, prompts, next, allResults, displayed,
                 chanVars, workerVars, connVars>>

\* the range ends on the closed, drained channel; duration := time.Since(startTime)
CollectEnd ==
  /\ pc = "collect" /\ Len(results) = 0 /\ closed
  /\ pc' = "measured"
  /\ UNCHANGED <<cfg, inputVars, relayVars, parseVars, installVars, exitMsg, effectiveUser, expandedHosts, tagsFound,
                 warnings, password, prompts, next, allResults, displayed,
                 chanVars, workerVars, connVars>>

CountSuccess(rs) == Cardinality({i \in 1..Len(rs) : rs[i].Success})

\* displayResults(allResults, duration)
Display ==
  /\ pc = "measured"
  /\ displayed' = [shown |-> TRUE, success |-> CountSuccess(allResults),
                   failure |-> Len(allResults) - CountSuccess(allResults),
                   total |-> Len(allResults)]
  /\ pc' = "displayed"
  /\ UNCHANGED <<cfg, inputVars, relayVars, parseVars, installVars, exitMsg, effectiveUser, expandedHosts, tagsFound,
                 warnings, password, prompts, next, allResults,
                 chanVars, workerVars, connVars>>

\* autoCreateHostsFromResults: the hosts appended to the catalog, in result order
RECURSIVE HostsToCreate(_)
HostsToCreate(rs) ==
  IF Len(rs) = 0 THEN <<>>
  ELSE (IF Head(rs).Success /\ Head(rs).ShouldAutoCreate
        THEN <<[Name |-> Head(rs).Host, Host |-> Head(rs).Hostname,
                Port |-> Head(rs).Port, Tags |-> << <<"a","u","t","o","c","r","e","a","t","e","d">> >>]>>
        ELSE <<>>) \o HostsToCreate(Tail(rs))

\* faulty variant of AutoCreate: the hosts are created while the results are
\* still being collected
AutoCreate_whileCollecting ==
  /\ pc = "collect" /\ cfg.AutoCreate /\ cfg.Hosts = CatalogHosts
  /\ HostsToCreate(allResults) # <<>>
  /\ cfg' = [cfg EXCEPT !.Hosts = cfg.Hosts \o HostsToCreate(allResults)]
  /\ UNCHANGED <<inputVars, relayVars, parseVars, installVars, mainVars, chanVars, workerVars, connVars>>

\* if cfg.Config.AutoCreate { autoCreateHostsFromResults(...) }; return
AutoCreate ==
  /\ pc = "displayed"
  /\ cfg' = IF cfg.AutoCreate
            THEN [cfg EXCEPT !.Hosts = cfg.Hosts \o HostsToCreate(allResults)]
            ELSE cfg
  /\ pc' = "done"
  /\ UNCHANGED <<inputVars, relayVars, parseVars, installVars, exitMsg, effectiveUser, expandedHosts, tagsFound,
                 warnings, password, prompts, next, allResults, displayed,
                 chanVars, workerVars, connVars>>

Workers == 1..Len(expandedHosts)

Next ==
  \/ Begin
  \/ AskPassword
  \/ Spawn
  \/ StartCloser
  \/ \E i \in DOMAIN wpc : WorkerExecute(i)
  \/ \E i \in DOMAIN wpc : WorkerPublish(i)
  \/ \E i \in DOMAIN wpc : WorkerDone(i)
  \/ CloserClose
  \/ CollectRecv
  \/ CollectEnd
  \/ Display
  \/ AutoCreate

Spec == Init /\ [][Next]_vars

\* ------------------------------------------------------- host auto-creation
\* The same run with auto_create on and off, over tokens that are a catalog
\* name, the address of a catalog entry, and two spellings of an address the
\* catalog does not hold.
CreatePool == {n_w1, a_h1, a_h4, tok_bo_h4}

CreateLists == UNION { [1..k -> CreatePool] : k \in 1..MaxArgs }

InitCreate ==
  /\ cfg \in {Catalog(<<User_al, User_op, User_bo>>, auto) : auto \in BOOLEAN}
  /\ hostArgs \in CreateLists
  /\ selectedUser = NilUser /\ jumpHost = NilJump
  /\ askPassword \in BOOLEAN
  /\ pc = "start" /\ exitMsg = ""
  /\ effectiveUser = NilUser
  /\ expandedHosts = <<>> /\ tagsFound = <<>> /\ warnings = 0
  /\ password = "" /\ prompts = 0 /\ next = 1
  /\ wg = 0 /\ results = <<>> /\ closed = FALSE /\ closer = "unborn"
  /\ allResults = <<>>
  /\ displayed = [shown |-> FALSE, success |-> 0, failure |-> 0, total |-> 0]
  /\ wpc = <<>> /\ wres = <<>>
  /\ ConnIdle /\ RelayIdle /\ ParseIdle /\ InstallIdle

SpecCreate == InitCreate /\ [][Next]_vars

\* the steps that need only the Go scheduler to happen: every step of the
\* run but a worker's call of executeOnHost
Scheduled ==
  \/ Begin
  \/ AskPassword
  \/ Spawn
  \/ StartCloser
  \/ \E i \in DOMAIN wpc : WorkerPublish(i)
  \/ \E i \in DOMAIN wpc : WorkerDone(i)
  \/ CloserClose
  \/ CollectRecv
  \/ CollectEnd
  \/ Display
  \/ AutoCreate

\* every call of executeOnHost returns: no worker stays in it for ever
ExecuteReturns == []<>(\A i \in DOMAIN wpc : wpc[i] # "running")

\* the same runs when the scheduler lets every goroutine that can take a
\* step take one and every worker's resolve, dial and execute step returns
SpecCreateFair == SpecCreate /\ WF_vars(Scheduled) /\ ExecuteReturns

\* ------------------------------------------- one call on one SSHConnection
Credentials == { [user |-> u_al, keys |-> <<Home \o <<"k1">>, Home \o <<"k2">>>>],
                 [user |-> u_bo, keys |-> <<>>],
                 [user |-> u_al, keys |-> << <<>>, p_k1, Home \o <<"k2">> >>] }

ConnectionOf(cr, pw, jh, allowed) ==
  [NewSSHConnection(cr.user, a_h1, 22, cr.keys, pw, jh,
                    GetJumpHostSSHKeys(Catalog(<<User_al, User_op, User_bo>>, TRUE), jh),
                    "cmd", FALSE, "", 0)
     EXCEPT !.InteractivePasswordAllowed = allowed]

Connections ==
  { ConnectionOf(cr, pw, jh, allowed) :
      cr \in Credentials, pw \in TypedPasswords, jh \in {NilJump, Jump_ok, Jump_bad},
      allowed \in BOOLEAN }

DialEnvs ==
  { DialEnv(agent, jumpTcp, jumpAccepts, reach, accepts, typed) :
      agent \in BOOLEAN, jumpTcp \in BOOLEAN, jumpAccepts \in {{}, {"kj"}, {"pw"}},
      reach \in BOOLEAN, accepts \in {{}, {"k2"}, {"pw"}}, typed \in {"pw", "no"} }

Chunks == { Chunk(st, data) : st \in {"stdout", "stderr"}, data \in {"a", "b"} }

EmitSeqs == UNION { [1..k -> Chunks] : k \in 0..MaxEmit }

RunEnvs ==
  { RunEnv(FALSE, <<>>, "exit", 0) }
  \cup { RunEnv(TRUE, em, "exit", st) : em \in EmitSeqs, st \in {0, 3} }
  \cup { RunEnv(TRUE, em, "transport", 0) : em \in EmitSeqs }

\* the outcomes of installPublicKeyIfNeeded: no public key file, key already
\* present, key installed, and a failure at each of its four remote steps
InstallEnvs ==
  { InstallEnv(FALSE, TRUE, "present", TRUE, TRUE),
    InstallEnv(TRUE, TRUE, "present", TRUE, TRUE),
    InstallEnv(TRUE, TRUE, "absent", TRUE, TRUE),
    InstallEnv(TRUE, FALSE, "absent", TRUE, TRUE),
    InstallEnv(TRUE, TRUE, "error", TRUE, TRUE),
    InstallEnv(TRUE, TRUE, "absent", FALSE, TRUE),
    InstallEnv(TRUE, TRUE, "absent", TRUE, FALSE) }

ExecDialEnvs ==
  { DialEnv(FALSE, TRUE, {"kj"}, TRUE, {"k2", "pw"}, "pw"),
    DialEnv(TRUE, TRUE, {"kj"}, TRUE, {}, "no"),
    DialEnv(FALSE, TRUE, {"kj"}, FALSE, {"k2"}, "pw") }

ExecEnvs ==
  { [d |-> nd, i |-> ni, r |-> nr] :
      nd \in ExecDialEnvs,
      ni \in InstallEnvs,
      nr \in RunEnvs }

\* the terminals and sessions of an interactive Connect, one per exit path
TermEnvs ==
  { TermEnv(prior, FALSE, FALSE, FALSE, "none", TRUE) : prior \in {"cooked", "cbreak"} }
  \cup { TermEnv(prior, TRUE, FALSE, FALSE, "none", TRUE) : prior \in {"cooked", "cbreak"} }
  \cup { TermEnv(prior, TRUE, TRUE, FALSE, "none", TRUE) : prior \in {"cooked", "cbreak"} }
  \cup { TermEnv(prior, TRUE, TRUE, TRUE, wait, TRUE) :
           prior \in {"cooked", "cbreak"}, wait \in {"clean", "exit", "transport"} }

ConnectEnvs ==
  { [d |-> nd, i |-> ni, r |-> RunEnv(session, <<>>, "exit", 0)] :
      nd \in ExecDialEnvs, ni \in InstallEnvs, session \in BOOLEAN }

InitConn ==
  /\ FanIdle /\ RelayIdle /\ ParseIdle /\ InstallIdle
  /\ sc \in Connections
  /\ scenv = NoEnv /\ scret = NoRet /\ scpc = "new"

\* a call of sc.dial(config) with the config of createSSHConfig
CallDial ==
  /\ scpc = "new"
  /\ \E nd \in DialEnvs :
       /\ scenv' = [NoEnv EXCEPT !.d = nd]
       /\ scret' = [NoRet EXCEPT !.op = "dial",
                      !.dial = dial(sc, createSSHConfig(sc, nd.agent), nd),
                      !.config = createSSHConfig(sc, nd.agent)]
  /\ scpc' = "returned"
  /\ UNCHANGED <<cfg, inputVars, relayVars, parseVars, installVars, mainVars, chanVars, workerVars, sc>>

\* a call of sc.ExecuteCommandWithOutput()
CallExecute ==
  /\ scpc = "new"
  /\ \E n \in ExecEnvs :
       /\ scenv' = n
       /\ scret' = [NoRet EXCEPT !.op = "exec",
                      !.exec = ExecuteCommandWithOutput(sc, n),
                      !.config = createSSHConfig(sc, n.d.agent)]
  /\ scpc' = "returned"
  /\ UNCHANGED <<cfg, inputVars, relayVars, parseVars, installVars, mainVars, chanVars, workerVars, sc>>

\* a call of sc.ExecuteCommand()
CallCommand ==
  /\ scpc = "new"
  /\ \E n \in ExecEnvs :
       /\ scenv' = n
       /\ scret' = [NoRet EXCEPT !.op = "command",
                      !.run = ExecuteCommand(sc, n),
                      !.config = createSSHConfig(sc, n.d.agent)]
  /\ scpc' = "returned"
  /\ UNCHANGED <<cfg, inputVars, relayVars, parseVars, installVars, mainVars, chanVars, workerVars, sc>>

\* a call of sc.Connect()
CallConnect ==
  /\ scpc = "new"
  /\ \E n \in ConnectEnvs, te \in TermEnvs :
       /\ scenv' = n
       /\ scret' = [NoRet EXCEPT !.op = "connect",
                      !.run = Connect(sc, n, te),
                      !.te = te,
                      !.config = createSSHConfig(sc, n.d.agent)]
  /\ scpc' = "returned"
  /\ UNCHANGED <<cfg, inputVars, relayVars, parseVars, installVars, mainVars, chanVars, workerVars, sc>>

NextConn ==
  \/ CallDial
  \/ CallExecute
  \/ CallCommand
  \/ CallConnect

SpecConn == InitConn /\ [][NextConn]_vars

\* ------------------------------------------------------------- the relays
\* Two relays copy bytes between an accepted connection and a target it
\* dials.  PortForwardSession ("forward"): the accepted connection is the
\* local TCP connection (localConn), the target is the channel opened with
\* pf.client.Dial (remoteConn).  The reverse tunnel of setupRemoteForwarding
\* ("proxy"): the accepted connection is the channel from the remote
\* listener (remoteConn), the target is the TCP connection to the local
\* proxy (proxyConn).  Direction "fwd" copies accepted -> target (bytesSent in
\* PortForwardSession), direction "back" copies target -> accepted
\* (bytesReceived).
FreeConn ==
  [w |-> "none", accepted |-> "none", target |-> "none",
   fwd |-> "idle", back |-> "idle", sent |-> 0, received |-> 0,
   doneCh |-> 0, peerClosed |-> FALSE]

Slots == 1..MaxConns

Dirs == {"fwd", "back"}

DirOf(r, d) == IF d = "fwd" THEN r.fwd ELSE r.back

\* the socket a direction reads and the one it writes
Src(d) == IF d = "fwd" THEN "accepted" ELSE "target"

Dst(d) == IF d = "fwd" THEN "target" ELSE "accepted"

SockOf(r, side) == IF side = "accepted" THEN r.accepted ELSE r.target

\* the socket of a pair that is a channel of the ssh.Client
ChannelSide == IF mode = "forward" THEN "target" ELSE "accepted"

\* a socket no longer carries data: Close was called on it, or it is a
\* channel of a client that was closed
Dead(r, side) ==
  \/ SockOf(r, side) = "closed"
  \/ (side = ChannelSide /\ client = "closed")

\* io.Copy(dst, src) returns: the read of src ends or a write to dst fails,
\* because one of the two sockets is dead or a peer of the pair closed its end
CopyReturns(r, d) == r.peerClosed \/ Dead(r, Src(d)) \/ Dead(r, Dst(d))

\* select { case <-pf.done: ... default: }
DoneClosed_never == FALSE

DoneClosed == done

\* atomic.AddInt64(&counter, n)
AtomicAdd_store(counter, n) == n

AtomicAdd(counter, n) == counter + n

Accepted == {c \in Slots : conns[c].accepted # "none"}

\* PortForwardSession.Start up to <-sigChan: dial, net.Listen, go acceptConnections
Start ==
  /\ mode = "forward" /\ rpc = "new"
  /\ \E outcome \in {"dial failed", "listen failed", "listening"} :
       /\ rpc' = IF outcome = "listening" THEN "waiting" ELSE "failed"
       /\ client' = CASE outcome = "dial failed" -> "none"
                      [] outcome = "listen failed" -> "closed"
                      [] OTHER -> "open"
       /\ listener' = IF outcome = "listening" THEN "open" ELSE "none"
       /\ apc' = IF outcome = "listening" THEN "check" ELSE "unborn"
  /\ UNCHANGED <<fanVars, parseVars, installVars, mode, done, activeConns, totalConns, bytesSent,
                 bytesReceived, stats, conns>>

\* Start: <-sigChan; close(pf.done)
Interrupt ==
  /\ mode = "forward" /\ rpc = "waiting"
  /\ done' = TRUE /\ rpc' = "stopping"
  /\ UNCHANGED <<fanVars, parseVars, installVars, mode, listener, client, apc, activeConns,
                 totalConns, bytesSent, bytesReceived, stats, conns>>

\* PortForwardSession.Stop: the statistics, listener.Close(), client.Close()
Stop ==
  /\ mode = "forward" /\ rpc = "stopping"
  /\ stats' = [printed |-> TRUE]
  /\ listener' = IF listener # "none" THEN "closed" ELSE listener
  /\ client' = IF client # "none" THEN "closed" ELSE client
  /\ rpc' = "stopped"
  /\ UNCHANGED <<fanVars, parseVars, installVars, mode, done, apc, activeConns, totalConns,
                 bytesSent, bytesReceived, conns>>

\* faulty variant of LoopCheck: the loop has no select on pf.done
LoopCheck_noSelect ==
  /\ mode = "forward" /\ apc = "check"
  /\ apc' = "accept"
  /\ UNCHANGED <<fanVars, parseVars, installVars, mode, rpc, done, listener, client, activeConns,
                 totalConns, bytesSent, bytesReceived, stats, conns>>

\* acceptConnections, top of the loop: the select on pf.done, then SetDeadline
LoopCheck ==
  /\ mode = "forward" /\ apc = "check"
  /\ apc' = IF DoneClosed THEN "exited" ELSE "accept"
  /\ UNCHANGED <<fanVars, parseVars, installVars, mode, rpc, done, listener, client, activeConns,
                 totalConns, bytesSent, bytesReceived, stats, conns>>

\* acceptConnections: Accept returns the timeout of the one-second deadline
AcceptTimeout ==
  /\ mode = "forward" /\ apc = "accept" /\ listener = "open"
  /\ apc' = "check"
  /\ UNCHANGED <<fanVars, parseVars, installVars, mode, rpc, done, listener, client, activeConns,
                 totalConns, bytesSent, bytesReceived, stats, conns>>

\* acceptConnections: Accept returns another error, because Stop closed the
\* listener or because the listener fails now: return when pf.done is
\* closed, else print the warning and continue
AcceptError ==
  /\ mode = "forward" /\ apc = "accept"
  /\ apc' = IF DoneClosed THEN "exited" ELSE "check"
  /\ listener' = IF listener = "open" THEN "failed" ELSE listener
  /\ UNCHANGED <<fanVars, parseVars, installVars, mode, rpc, done, client, activeConns,
                 totalConns, bytesSent, bytesReceived, stats, conns>>

\* acceptConnections: Accept returns a connection
AcceptConn(c) ==
  /\ mode = "forward" /\ apc = "accept" /\ listener = "open"
  /\ c = Cardinality(Accepted) + 1
  /\ conns' = [conns EXCEPT ![c].accepted = "open"]
  /\ apc' = "count total"
  /\ UNCHANGED <<fanVars, parseVars, installVars, mode, rpc, done, listener, client, activeConns,
                 totalConns, bytesSent, bytesReceived, stats>>

\* acceptConnections: atomic.AddInt64(&pf.totalConns, 1)
CountTotal ==
  /\ mode = "forward" /\ apc = "count total"
  /\ totalConns' = AtomicAdd(totalConns, 1)
  /\ apc' = "count active"
  /\ UNCHANGED <<fanVars, parseVars, installVars, mode, rpc, done, listener, client, activeConns,
                 bytesSent, bytesReceived, stats, conns>>

\* acceptConnections: atomic.AddInt64(&pf.activeConns, 1); go pf.handleConnection
CountActive ==
  /\ mode = "forward" /\ apc = "count active"
  /\ activeConns' = AtomicAdd(activeConns, 1)
  /\ conns' = [conns EXCEPT ![Cardinality(Accepted)].w = "dialing"]
  /\ apc' = "check"
  /\ UNCHANGED <<fanVars, parseVars, installVars, mode, rpc, done, listener, client, totalConns,
                 bytesSent, bytesReceived, stats>>

\* the deferred calls of a worker that returns: Close on the sockets it
\* holds; the worker is gone
Returned(r) ==
  [r EXCEPT !.w = "exited", !.accepted = "closed", !.peerClosed = FALSE,
            !.target = IF r.target = "none" THEN "none" ELSE "closed"]

\* faulty variant of DialFail: the failure also closes the listener
DialFail_closesListener(c) ==
  /\ mode \in {"forward", "proxy"} /\ conns[c].w = "dialing"
  /\ conns' = [conns EXCEPT ![c] = Returned(conns[c])]
  /\ activeConns' = IF mode = "forward" THEN AtomicAdd(activeConns, -1) ELSE activeConns
  /\ listener' = "closed"
  /\ UNCHANGED <<fanVars, parseVars, installVars, mode, rpc, done, client, apc, totalConns,
                 bytesSent, bytesReceived, stats>>

\* faulty variant of DialFail: the worker returns without its deferred calls
DialFail_noDefer(c) ==
  /\ mode \in {"forward", "proxy"} /\ conns[c].w = "dialing"
  /\ conns' = [conns EXCEPT ![c].w = "exited"]
  /\ UNCHANGED <<fanVars, parseVars, installVars, mode, rpc, done, listener, client, apc,
                 activeConns, totalConns, bytesSent, bytesReceived, stats>>

\* handleConnection / handleProxyForwarding: the dial of the target fails.
\* The worker logs (forward) and returns: its deferred calls close the
\* accepted connection and, in PortForwardSession, decrement activeConns.
DialFail(c) ==
  /\ mode \in {"forward", "proxy"} /\ conns[c].w = "dialing"
  /\ conns' = [conns EXCEPT ![c] = Returned(conns[c])]
  /\ activeConns' = IF mode = "forward" THEN AtomicAdd(activeConns, -1) ELSE activeConns
  /\ UNCHANGED <<fanVars, parseVars, installVars, mode, rpc, done, listener, client, apc,
                 totalConns, bytesSent, bytesReceived, stats>>

\* handleConnection / handleProxyForwarding: the target is dialed and the two
\* io.Copy start.  pf.client.Dial needs the client; net.Dial to the proxy
\* does not.
DialTarget(c) ==
  /\ mode \in {"forward", "proxy"} /\ conns[c].w = "dialing"
  /\ mode = "forward" => client = "open"
  /\ conns' = [conns EXCEPT ![c].target = "open", ![c].w = "relaying",
                            ![c].fwd = "copying", ![c].back = "copying"]
  /\ UNCHANGED <<fanVars, parseVars, installVars, mode, rpc, done, listener, client, apc,
                 activeConns, totalConns, bytesSent, bytesReceived, stats>>

\* a peer of a pair being relayed (the client of the accepted connection, or
\* the service behind the target) closes its end
PeerClose(c) ==
  /\ conns[c].w = "relaying" /\ ~conns[c].peerClosed
  /\ conns' = [conns EXCEPT ![c].peerClosed = TRUE]
  /\ UNCHANGED <<fanVars, parseVars, installVars, mode, rpc, done, listener, client, apc,
                 activeConns, totalConns, bytesSent, bytesReceived, stats>>

\* the bytes the workers have counted so far
RECURSIVE Relayed(_)
Relayed(c) == IF c = 0 THEN 0 ELSE conns[c].sent + conns[c].received + Relayed(c - 1)

\* a copy goroutine of handleConnection from the return of io.Copy on:
\* n, _ := io.Copy(...); atomic.AddInt64 on the worker's own sent / received
\* and on pf.bytesSent / pf.bytesReceived; done <- struct{}{} (the channel
\* has room for both copies, so the send never blocks).  Only the add on the
\* shared counter is seen by other goroutines before the worker receives
\* from done, so the three statements are one step.  The copies of the
\* reverse tunnel discard n and have nothing more to do.
CopyEnd(c, d) ==
  /\ DirOf(conns[c], d) = "copying"
  /\ CopyReturns(conns[c], d)
  /\ \E n \in 0..(IF mode = "forward" THEN MaxBytes - Relayed(MaxConns) ELSE 0) :
       /\ conns' = IF d = "fwd"
                   THEN [conns EXCEPT ![c].fwd = "done", ![c].doneCh = @ + 1,
                                      ![c].sent = AtomicAdd(conns[c].sent, n)]
                   ELSE [conns EXCEPT ![c].back = "done", ![c].doneCh = @ + 1,
                                      ![c].received = AtomicAdd(conns[c].received, n)]
       /\ bytesSent' = IF mode = "forward" /\ d = "fwd"
                       THEN AtomicAdd(bytesSent, n) ELSE bytesSent
       /\ bytesReceived' = IF mode = "forward" /\ d = "back"
                           THEN AtomicAdd(bytesReceived, n) ELSE bytesReceived
  /\ UNCHANGED <<fanVars, parseVars, installVars, mode, rpc, done, listener, client, apc,
                 activeConns, totalConns, stats>>

\* handleConnection: the first <-done, then localConn.Close(), remoteConn.Close()
\* (what the peers do with their ends no longer matters)
FirstDone(c) ==
  /\ mode = "forward" /\ conns[c].w = "relaying" /\ conns[c].doneCh > 0
  /\ conns' = [conns EXCEPT ![c].doneCh = @ - 1, ![c].w = "closing",
                            ![c].accepted = "closed", ![c].target = "closed",
                            ![c].peerClosed = FALSE]
  /\ UNCHANGED <<fanVars, parseVars, installVars, mode, rpc, done, listener, client, apc,
                 activeConns, totalConns, bytesSent, bytesReceived, stats>>

\* faulty variant of SecondDone: the deferred call decrements totalConns
SecondDone_wrongCounter(c) ==
  /\ mode = "forward" /\ conns[c].w = "closing" /\ conns[c].doneCh > 0
  /\ conns' = [conns EXCEPT ![c] = Returned([conns[c] EXCEPT !.doneCh = @ - 1])]
  /\ totalConns' = AtomicAdd(totalConns, -1)
  /\ UNCHANGED <<fanVars, parseVars, installVars, mode, rpc, done, listener, client, apc,
                 activeConns, bytesSent, bytesReceived, stats>>

\* handleConnection: the second <-done, the log line, and the deferred calls
SecondDone(c) ==
  /\ mode = "forward" /\ conns[c].w = "closing" /\ conns[c].doneCh > 0
  /\ conns' = [conns EXCEPT ![c] = Returned([conns[c] EXCEPT !.doneCh = @ - 1])]
  /\ activeConns' = AtomicAdd(activeConns, -1)
  /\ UNCHANGED <<fanVars, parseVars, installVars, mode, rpc, done, listener, client, apc,
                 totalConns, bytesSent, bytesReceived, stats>>

\* Connect with the proxy enabled: setupRemoteForwarding, client.Listen and
\* the accept goroutine; a failure to listen is a warning and no tunnel
StartProxy ==
  /\ mode = "proxy" /\ rpc = "new"
  /\ client' = "open"
  /\ \E listening \in BOOLEAN :
       /\ listener' = IF listening THEN "open" ELSE "none"
       /\ apc' = IF listening THEN "accept" ELSE "unborn"
  /\ rpc' = "session"
  /\ UNCHANGED <<fanVars, parseVars, installVars, mode, done, activeConns, totalConns, bytesSent,
                 bytesReceived, stats, conns>>

\* Connect returns: the deferred client.Close()
EndSession ==
  /\ mode = "proxy" /\ rpc = "session"
  /\ client' = "closed" /\ rpc' = "returned"
  /\ UNCHANGED <<fanVars, parseVars, installVars, mode, done, listener, apc, activeConns,
                 totalConns, bytesSent, bytesReceived, stats, conns>>

\* setupRemoteForwarding, accept goroutine: listener.Accept returns a
\* connection; go s.handleProxyForwarding(remoteConn)
ProxyAccept(c) ==
  /\ mode = "proxy" /\ apc = "accept" /\ listener = "open" /\ client = "open"
  /\ c = Cardinality(Accepted) + 1
  /\ conns' = [conns EXCEPT ![c].accepted = "open", ![c].w = "dialing"]
  /\ UNCHANGED <<fanVars, parseVars, installVars, mode, rpc, done, listener, client, apc,
                 activeConns, totalConns, bytesSent, bytesReceived, stats>>

\* setupRemoteForwarding, accept goroutine: listener.Accept fails; return,
\* and the deferred listener.Close()
ProxyAcceptError ==
  /\ mode = "proxy" /\ apc = "accept"
  /\ apc' = "exited" /\ listener' = "closed"
  /\ UNCHANGED <<fanVars, parseVars, installVars, mode, rpc, done, client, activeConns,
                 totalConns, bytesSent, bytesReceived, stats, conns>>

\* handleProxyForwarding: io.Copy(remoteConn, proxyConn) has returned; the
\* handler returns and its deferred calls close proxyConn and remoteConn
ProxyReturn(c) ==
  /\ mode = "proxy" /\ conns[c].w = "relaying" /\ conns[c].back = "done"
  /\ conns' = [conns EXCEPT ![c] = Returned(conns[c])]
  /\ UNCHANGED <<fanVars, parseVars, installVars, mode, rpc, done, listener, client, apc,
                 activeConns, totalConns, bytesSent, bytesReceived, stats>>

InitRelay ==
  /\ FanIdle /\ ConnIdle /\ ParseIdle /\ InstallIdle
  /\ mode \in {"forward", "proxy"} /\ rpc = "new" /\ done = FALSE
  /\ listener = "none" /\ client = "none" /\ apc = "unborn"
  /\ activeConns = 0 /\ totalConns = 0 /\ bytesSent = 0 /\ bytesReceived = 0
  /\ stats = NoStats /\ conns = [c \in Slots |-> FreeConn]

\* the accept loop of PortForwardSession
Acceptor ==
  \/ LoopCheck
  \/ AcceptTimeout
  \/ AcceptError
  \/ \E c \in Slots : AcceptConn(c)
  \/ CountTotal
  \/ CountActive

NextRelay ==
  \/ Start
  \/ Interrupt
  \/ Stop
  \/ Acceptor
  \/ StartProxy
  \/ EndSession
  \/ \E c \in Slots : ProxyAccept(c)
  \/ ProxyAcceptError
  \/ \E c \in Slots : DialFail(c)
  \/ \E c \in Slots : DialTarget(c)
  \/ \E c \in Slots : PeerClose(c)
  \/ \E c \in Slots, d \in Dirs : CopyEnd(c, d)
  \/ \E c \in Slots : FirstDone(c)
  \/ \E c \in Slots : SecondDone(c)
  \/ \E c \in Slots : ProxyReturn(c)

SpecRelay == InitRelay /\ [][NextRelay]_vars

\* The accept loop is a goroutine of its own which the Go scheduler keeps
\* running, and its only blocking call, Accept, returns within the one
\* second deadline set before it: a step of the loop that stays possible is
\* taken.
SpecRelayFair == SpecRelay /\ WF_vars(Acceptor)

\* ------------------------------------------------ resolution of one token
\* One host argument is resolved, as executeOnHost does for each token of a
\* batch, or parsed alone by parseDirectConnection.
\* strconv.Itoa: how a port number is written in a token
RECURSIVE Itoa(_)
Itoa(n) ==
  IF n < 10 THEN <<DigitChars[n + 1]>>
  ELSE Itoa(n \div 10) \o <<DigitChars[(n % 10) + 1]>>

\* a part the token does not have
Absent == <<"absent">>

\* user@host:port, the parts that are absent left out with their separator
Join(u, h, p) ==
  (IF u = Absent THEN <<>> ELSE u \o <<"@">>) \o h \o (IF p = Absent THEN <<>> ELSE <<":">> \o p)

UserParts == {Absent, <<>>, u_al, u_bo, <<"z">>, <<"a", ":">>}

HostParts == {<<>>, a_h1, n_w1, n_w2, n_d1, <<"x", "@", "y">>, <<"h", ".", "x">>}

PortNumbers == {0, 1, 22, 2222, 65535, 65536}

PortParts == {Absent, <<>>, <<"0", "2", "2">>, <<"2", "x">>} \cup {Itoa(n) : n \in PortNumbers}

BuiltTokens == {Join(u, h, p) : u \in UserParts, h \in HostParts, p \in PortParts}

TokenChars == {"a", "@", ":", "1"}

FreeTokens == UNION {[1..n -> TokenChars] : n \in 0..MaxTokenLen}

Tokens == BuiltTokens \cup FreeTokens

EffectiveUsers == {NilUser, User_al, User_bo}

\* the hosts section of a config.yaml: d1 is written without its port
YamlHosts ==
  << [name |-> n_w1, host |-> a_h1, port |-> <<22>>,   tags |-> <<t_Web>>],
     [name |-> n_w2, host |-> a_h2, port |-> <<2222>>, tags |-> <<t_web, t_db>>],
     [name |-> n_d1, host |-> a_h3, port |-> <<>>,     tags |-> <<>>] >>

\* yaml.Unmarshal into []Host: a key that is absent leaves the zero value
Unmarshal(y) ==
  [i \in 1..Len(y) |->
     [Name |-> y[i].name, Host |-> y[i].host,
      Port |-> IF y[i].port = <<>> THEN 0 ELSE y[i].port[1], Tags |-> y[i].tags]]

\* LoadConfig of that file
LoadConfig(y, users, auto) == [Catalog(users, auto) EXCEPT !.Hosts = Unmarshal(y)]

ParseCatalogs ==
  { Catalog(<<User_al, User_op, User_bo>>, TRUE),
    LoadConfig(YamlHosts, <<User_al, User_op, User_bo>>, TRUE) }

InitParse ==
  /\ cfg \in ParseCatalogs /\ FanRest /\ ConnIdle /\ RelayIdle /\ InstallIdle
  /\ token \in Tokens /\ tokenUser \in EffectiveUsers
  /\ resolved = [op |-> "none"]

\* parseDirectConnection(token, tokenUser)
ParseArg ==
  /\ resolved.op = "none"
  /\ resolved' = [op |-> "parse", p |-> parseDirectConnection(token, tokenUser)]
  /\ UNCHANGED <<fanVars, relayVars, installVars, token, tokenUser>>

\* executeOnHost, the resolution of token for the effective user tokenUser
\* (ConnectMultiple always hands over a user)
ResolveArg ==
  /\ resolved.op = "none" /\ ~tokenUser.isNil
  /\ resolved' = [op |-> "resolve", t |-> ResolveToken(cfg, token, tokenUser)]
  /\ UNCHANGED <<fanVars, relayVars, installVars, token, tokenUser>>

\* cmd.Connect, the resolution of token for the effective user tokenUser
\* (Connect exits when there is no effective user)
ConnectArg ==
  /\ resolved.op = "none" /\ ~tokenUser.isNil
  /\ resolved' = [op |-> "connect", t |-> ResolveDirect(cfg, token, tokenUser)]
  /\ UNCHANGED <<fanVars, relayVars, installVars, token, tokenUser>>

NextParse ==
  \/ ParseArg
  \/ ResolveArg
  \/ ConnectArg

SpecParse == InitParse /\ [][NextParse]_vars

\* ================================================================ claims
Post == pc \in {"measured", "displayed", "done"}

HostsOf(rs) == [j \in 1..Len(rs) |-> rs[j].Host]

TimesIn(seq, x) == Cardinality({j \in 1..Len(seq) : seq[j] = x})

WorkerReturned(i) == wpc[i] \in {"executed", "published", "done"}

\* C1: in every fan-out run and under every interleaving of the workers, the
\* collected results hold exactly one HostResult per token of the expanded,
\* deduplicated list: no token is ever reported twice or invented, and once
\* collection is over the list has the length of the token list and every
\* token is in it once.
C1_OneResultPerToken ==
  /\ \A i \in 1..Len(expandedHosts) :
       TimesIn(HostsOf(allResults \o results), expandedHosts[i]) <= 1
  /\ Range(HostsOf(allResults \o results)) \subseteq Range(expandedHosts)
  /\ Post => /\ Len(allResults) = Len(expandedHosts)
             /\ \A i \in 1..Len(expandedHosts) :
                  TimesIn(HostsOf(allResults), expandedHosts[i]) = 1

\* a finished run whose arguments named one host twice (by its tag, then by
\* its name): two workers, two results, arrived out of submission order
C1_Witness ==
  /\ pc = "done" /\ hostArgs = <<tok_tagweb, n_w1>>
  /\ Len(expandedHosts) = 2 /\ Len(allResults) = 2
  /\ HostsOf(allResults) # expandedHosts

WorkerFailedEarly(i) ==
  WorkerReturned(i) /\ (~wres[i].ran \/ ~wres[i].exec.dialed)

\* C2: a worker whose endpoint fails resolution, dialing or authentication
\* publishes a HostResult with Success = false and a non-empty Error; the
\* process never exits once a worker was started, a worker that has its
\* result is never blocked from publishing it, and the finished run holds
\* the result of every worker.
C2_FailureContained ==
  /\ \A i \in DOMAIN wpc :
       WorkerFailedEarly(i) =>
         /\ ~wres[i].result.Success
         /\ wres[i].result.Error # <<>>
         /\ wres[i].result.Host = expandedHosts[i]
  /\ (\E i \in DOMAIN wpc : wpc[i] # "unborn") => pc # "exit"
  /\ \A i \in DOMAIN wpc :
       wpc[i] = "executed" => ~closed /\ Len(results) < Len(expandedHosts)
  /\ pc = "done" =>
       \A i \in DOMAIN wpc :
         /\ wpc[i] = "done"
         /\ \E j \in 1..Len(allResults) : allResults[j] = wres[i].result

\* the run of [ok-host, bad-host]: two results, one succeeded, one failed at
\* resolution with its error text
C2_Witness ==
  /\ pc = "done" /\ Len(allResults) = 2
  /\ \E i, j \in DOMAIN wpc :
       /\ ~wres[i].ran /\ ~wres[i].result.Success /\ wres[i].result.Error # <<>>
       /\ wres[j].result.Success

DialedCount == Cardinality({i \in DOMAIN wpc : wres[i].ran /\ wres[i].exec.dialed})

RemoteExitCount ==
  Cardinality({i \in DOMAIN wpc :
                 /\ wres[i].ran /\ wres[i].exec.dialed
                 /\ wres[i].net.r.session /\ wres[i].net.r.end = "exit"})

\* C3 as claimed: of the N results exactly K have succeeded, K being the
\* number of endpoints that dial successfully.
C3_Claimed ==
  Post => /\ Len(allResults) = Len(expandedHosts)
          /\ CountSuccess(allResults) = DialedCount

\* C3, amended: a run over N endpoints produces exactly N results whatever
\* the order of dispatch and completion, and exactly those endpoints have
\* succeeded == true whose dial succeeds, whose session opens and whose
\* command ends with a remote exit status (zero or not); an endpoint that
\* dials successfully and then fails at the transport level is a failure.
C3_SucceededCount ==
  Post => /\ Len(allResults) = Len(expandedHosts)
          /\ CountSuccess(allResults) = RemoteExitCount
          /\ CountSuccess(allResults) <= DialedCount

\* a finished run in which an endpoint dialed successfully and still failed
C3_Witness ==
  /\ pc = "done" /\ Len(allResults) >= 2
  /\ CountSuccess(allResults) >= 1
  /\ CountSuccess(allResults) < DialedCount

AllPublished ==
  /\ \A i \in DOMAIN wpc : wpc[i] \in {"published", "done"}
  /\ Len(allResults) + Len(results) = Len(expandedHosts)

\* C4: the elapsed time is computed, the results are displayed and hosts are
\* auto-created only after every worker has published its result and the
\* collector holds all of them; from then on the result list never changes.
C4_BlocksUntilAllPublished ==
  /\ [](( Post \/ displayed.shown \/ Len(cfg.Hosts) # Len(CatalogHosts) ) =>
          ( AllPublished /\ Len(allResults) = Len(expandedHosts) ))
  /\ [][ Post => allResults' = allResults ]_vars

\* a finished run that displayed two or more results and auto-created a host
C4_Witness ==
  /\ pc = "done" /\ displayed.shown /\ displayed.total >= 2
  /\ Len(cfg.Hosts) > Len(CatalogHosts)

\* C5: when the expansion of the arguments yields no token, the run exits
\* with the no-valid-host error before any password prompt, before the
\* channel and the closer exist and before any worker is started.
C5_NoValidHostsFailsFast ==
  (pc # "start" /\ ~GetEffectiveUser(cfg, selectedUser).isNil
     /\ Len(expandTagsToHosts(cfg, hostArgs).hosts) = 0) =>
    /\ pc = "exit" /\ exitMsg = "Nenhum host valido especificado"
    /\ prompts = 0 /\ password = ""
    /\ wpc = <<>> /\ wg = 0 /\ closer = "unborn" /\ results = <<>>

\* a run of empty tags only, started with -a: it warned and exited
C5_Witness ==
  /\ pc = "exit" /\ exitMsg = "Nenhum host valido especificado"
  /\ warnings >= 1 /\ askPassword

\* C6: no worker registers the interactive password callback, for the
\* endpoint or for the jump host, and none triggers a prompt; the run prompts
\* at most once, and only while no worker has been started.
C6_NoPromptInWorkers ==
  /\ [](/\ prompts <= 1
        /\ (\E i \in DOMAIN wpc : wpc[i] # "unborn") => pc \notin {"start", "prompt"}
        /\ \A i \in DOMAIN wpc :
             (WorkerReturned(i) /\ wres[i].ran) =>
               /\ \A agent \in BOOLEAN :
                    ~HasCallback(createSSHConfig(wres[i].conn, agent).Auth)
               /\ ~HasCallback(wres[i].exec.jumpAuth)
               /\ wres[i].exec.prompts = 0)
  /\ [][ prompts' # prompts => \A i \in DOMAIN wpc : wpc[i] = "unborn" ]_vars

\* a run with -a through a jump host where the user typed nothing: the
\* worker's connection has no preset password, and its handshakes failed
C6_Witness ==
  /\ pc = "done" /\ prompts = 1 /\ password = "" /\ ~jumpHost.isNil
  /\ \E i \in DOMAIN wpc :
       wres[i].ran /\ wres[i].conn.Password = "" /\ ~wres[i].exec.dialed

\* C7: whenever dial through a jump host returns an error, no connection it
\* opened is left open: the jump connection after a failed channel to the
\* endpoint, the channel and the jump connection after a failed endpoint
\* handshake.
C7_DialErrorClosesAll ==
  (scpc = "returned" /\ scret.op = "dial" /\ ~sc.JumpHost.isNil
     /\ scret.dial.err # Nil) => scret.dial.open = {}

\* dial returned the endpoint handshake's error after the jump host and the
\* channel were open
C7_Witness ==
  /\ scpc = "returned" /\ scret.op = "dial" /\ ~sc.JumpHost.isNil
  /\ scenv.d.jumpTcp /\ scenv.d.reach
  /\ scret.dial.err # Nil /\ scret.dial.err[1] = "erro ao criar conexao SSH"
  /\ scret.dial.open = {}

\* the credentials of the two identities of a connection: the endpoint user's
\* keys and the preset password asked for that user; the jump user's keys
EndpointOwn(s) == Range(LoadSigners(s.SSHKeys)) \cup (IF s.Password # "" THEN {s.Password} ELSE {})

RelayOwn(s) == Range(LoadSigners(s.JumpHostSSHKeys))

\* C8: through a jump host, the jump handshake is offered only the jump
\* host's own credentials and the endpoint handshake only the endpoint's own.
C8_OwnCredentialsOnly ==
  \A i \in DOMAIN wpc :
    (WorkerReturned(i) /\ wres[i].ran /\ ~jumpHost.isNil) =>
      /\ CredsOf(wres[i].exec.jumpAuth) \subseteq RelayOwn(wres[i].conn)
      /\ \A agent \in BOOLEAN :
           CredsOf(createSSHConfig(wres[i].conn, agent).Auth)
             \subseteq EndpointOwn(wres[i].conn)

RemoteExit ==
  scret.exec.dialed /\ scenv.r.session /\ scenv.r.end = "exit"

\* C9: ExecuteCommandWithOutput returns the remote exit status and no error
\* whenever the remote command exits, with status 0 or not, and returns -1
\* with an error for every failure of dial, of session creation or of the run
\* that is not a remote exit.
C9_ExitStatusOrTransportError ==
  (scpc = "returned" /\ scret.op = "exec") =>
    /\ RemoteExit => scret.exec.exitCode = scenv.r.status /\ scret.exec.err = Nil
    /\ ~RemoteExit => scret.exec.exitCode = -1 /\ scret.exec.err # Nil

\* the command exited with status 3 through a jump host: 3 and no error
C9_Witness ==
  /\ scpc = "returned" /\ scret.op = "exec" /\ ~sc.JumpHost.isNil
  /\ RemoteExit /\ scenv.r.status = 3
  /\ scret.exec.exitCode = 3 /\ scret.exec.err = Nil

CommandRan == scpc = "returned" /\ scret.op = "exec" /\ scret.exec.dialed /\ scenv.r.session

DataOf(emit) == [k \in 1..Len(emit) |-> emit[k].data]

\* the chunks of a stream among the first k emitted
CountUpTo(emit, stream, k) == Cardinality({j \in 1..k : emit[j].stream = stream})

\* C10 as claimed: the captured output is the emitted bytes in emission
\* order, whatever the order of stdout and stderr chunks.
C10_Claimed ==
  CommandRan => scret.exec.output = DataOf(scenv.r.emit)

\* C10, amended: the captured output holds every emitted chunk once, the
\* stdout chunks first in the order emitted, then the stderr chunks in the
\* order emitted; it is the emission order whenever no stderr chunk is
\* emitted before a stdout chunk.
C10_PerStreamOrder ==
  CommandRan =>
    LET em == scenv.r.emit
        out == scret.exec.output
    IN /\ Len(out) = Len(em)
       /\ \A k \in 1..Len(em) :
            out[IF em[k].stream = "stdout"
                THEN CountUpTo(em, "stdout", k)
                ELSE CountUpTo(em, "stdout", Len(em)) + CountUpTo(em, "stderr", k)]
              = em[k].data
       /\ (\A j, k \in 1..Len(em) :
             (j < k /\ em[j].stream = "stderr") => em[k].stream = "stderr")
            => out = DataOf(em)

\* the peer wrote "a" to stderr and then "b" to stdout: the output is b, a
C10_Witness ==
  /\ CommandRan /\ Len(scenv.r.emit) = 2
  /\ scenv.r.emit[1] = Chunk("stderr", "a") /\ scenv.r.emit[2] = Chunk("stdout", "b")
  /\ scret.exec.output = <<"b", "a">>

ConnectReturned == scpc = "returned" /\ scret.op = "connect"

\* C11: on every exit path of the interactive session after raw mode was
\* entered (PTY request failure, shell start failure, nonzero remote exit,
\* transport error, clean exit) the terminal is back in the state captured
\* before raw mode when the function has returned; when raw mode was never
\* entered the terminal was not touched.
C11_TerminalRestored ==
  ConnectReturned =>
    /\ scret.run.it.rawEntered =>
         /\ scret.run.it.path \in {"pty", "shell", "exit", "transport", "clean"}
         /\ scret.run.it.tty = scret.te.prior
    /\ ~scret.run.it.rawEntered => scret.run.it.tty = scret.te.prior

\* the session ended with a transport error on a terminal that was in cbreak
\* mode: the error is returned and the terminal is in cbreak mode again
C11_Witness ==
  /\ ConnectReturned /\ scret.run.it.rawEntered
  /\ scret.run.it.path = "transport" /\ scret.run.err # Nil
  /\ scret.te.prior = "cbreak" /\ scret.run.it.tty = "cbreak"

\* the network in which installPublicKeyIfNeeded has nothing to do
SkipInstall == InstallEnv(FALSE, TRUE, "present", TRUE, TRUE)

WithoutInstall(n) == [n EXCEPT !.i = SkipInstall]

\* what the caller gets of a Connect or an ExecuteCommand
Outcome(run) ==
  [err |-> run.err, started |-> run.started, it |-> run.it, shown |-> run.shown,
   open |-> run.open]

\* C12: whatever installPublicKeyIfNeeded does (nothing, key already present,
\* key installed, failure at any of its steps), the main session is started
\* whenever the dial succeeded and the session opens, and what the call
\* returns (error, output, exit code) is what it returns when the
\* installation step has nothing to do; this for Connect, ExecuteCommand and
\* ExecuteCommandWithOutput.
C12_InstallNeverFatal ==
  scpc = "returned" =>
    /\ scret.op = "exec" =>
         /\ scret.exec = ExecuteCommandWithOutput(sc, WithoutInstall(scenv))
         /\ (scret.exec.dialed /\ scenv.r.session) =>
              scret.exec.err = ExitOutcome(scenv.r.end, scenv.r.status).err
    /\ scret.op = "command" =>
         /\ Outcome(scret.run) = Outcome(ExecuteCommand(sc, WithoutInstall(scenv)))
         /\ scret.run.started = (scenv.r.session
                                   /\ dial(sc, scret.config, scenv.d).err = Nil)
    /\ scret.op = "connect" =>
         /\ Outcome(scret.run) = Outcome(Connect(sc, WithoutInstall(scenv), scret.te))
         /\ scret.run.started = (scenv.r.session
                                   /\ dial(sc, scret.config, scenv.d).err = Nil)

\* the append to authorized_keys failed and the command still ran and
\* returned its output with exit status 0
C12_Witness ==
  /\ scpc = "returned" /\ scret.op = "exec"
  /\ installPublicKeyIfNeeded(sc, scenv.i).err = <<"erro ao instalar chave publica">>
  /\ scret.exec.dialed /\ scret.exec.err = Nil /\ scret.exec.exitCode = 0
  /\ Len(scret.exec.output) = MaxEmit

\* ------------------------------------------------------------------- C13
\* a copy direction of the pair has returned
OneEnded(r) == r.fwd = "done" \/ r.back = "done"

BothClosed(r) == r.accepted = "closed" /\ r.target = "closed"

\* the worker of pair c closes both sockets of the pair
ForceClose(c) == (FirstDone(c) \/ ProxyReturn(c)) /\ BothClosed(conns'[c])

\* C13: in both relay modes, once either copy direction of a pair has ended,
\* the worker closes both sockets of the pair without waiting for the other
\* direction: while a worker is relaying and one of its directions has
\* ended, its step that closes both sockets can be taken.
C13_ForceCloseOnFirstEnd ==
  \A c \in Slots :
    (conns[c].w = "relaying" /\ OneEnded(conns[c])) => ENABLED ForceClose(c)

\* ------------------------------------------------------------------- C14
\* the relay workers that were started and have not returned
LiveWorkers == {c \in Slots : conns[c].w \in {"dialing", "relaying", "closing"}}

\* the accepted connections the accept loop has counted in totalConns
Counted == {c \in Slots : conns[c].w # "none" \/ (conns[c].accepted # "none" /\ apc = "count active")}

C15_Claimed ==
  [][/\ activeConns' >= activeConns /\ totalConns' >= totalConns
     /\ bytesSent' >= bytesSent /\ bytesReceived' >= bytesReceived]_vars

\* C15, amended: totalConns, bytesSent and bytesReceived never decrease;
\* activeConns is a gauge that changes by one at a time, up when a
\* connection is accepted and down when its worker returns.
C15_TotalsNeverDecrease ==
  [][/\ totalConns' >= totalConns
     /\ bytesSent' >= bytesSent /\ bytesReceived' >= bytesReceived
     /\ activeConns' \in {activeConns - 1, activeConns, activeConns + 1}
     /\ activeConns' < activeConns => Cardinality(LiveWorkers') < Cardinality(LiveWorkers)]_vars

\* the totals have grown and activeConns has come down again
C15_Witness ==
  /\ mode = "forward" /\ totalConns = 2 /\ bytesSent > 0 /\ bytesReceived > 0
  /\ activeConns = 0

\* ------------------------------------------------------------------- C16
RECURSIVE SumSent(_)
SumSent(c) == IF c = 0 THEN 0 ELSE conns[c].sent + SumSent(c - 1)

RECURSIVE SumReceived(_)
SumReceived(c) == IF c = 0 THEN 0 ELSE conns[c].received + SumReceived(c - 1)

\* every worker that was started has returned
AllExited == LiveWorkers = {} /\ apc # "count active"

\* C16: once all relay workers have exited, bytesSent is the sum over the
\* workers of the bytes each copied from its local connection to the remote
\* one, and bytesReceived the sum of the bytes copied the other way, under
\* every interleaving of the workers.
C16_BytesAreSums ==
  (mode = "forward" /\ AllExited) =>
    /\ bytesSent = SumSent(MaxConns)
    /\ bytesReceived = SumReceived(MaxConns)

\* two workers have relayed and returned, each having copied one byte from
\* its local connection to the remote one
C16_Witness ==
  /\ mode = "forward" /\ AllExited
  /\ \E c, e \in Slots :
       /\ c # e /\ conns[c].w = "exited" /\ conns[e].w = "exited"
       /\ conns[c].sent = 1 /\ conns[e].sent = 1
       /\ bytesSent = 2

\* ------------------------------------------------------------------- C17
\* C17: a relay worker whose dial of the target fails closes its own
\* accepted connection and nothing else: the listener, the accept loop, the
\* client and every other pair are as they were.
C17_DialFailureIsLocal ==
  [][\A c \in Slots :
       (conns[c].w = "dialing" /\ conns'[c].w = "exited") =>
         /\ conns'[c].accepted = "closed"
         /\ listener' = listener /\ apc' = apc /\ client' = client
         /\ \A e \in Slots \ {c} : conns'[e] = conns[e]]_vars

\* in the reverse tunnel one worker has failed to reach the proxy while
\* another pair is being relayed and the listener is open
C17_Witness ==
  /\ mode = "proxy" /\ listener = "open" /\ apc = "accept"
  /\ \E c, e \in Slots :
       /\ conns[c].w = "exited" /\ conns[c].target = "none"
       /\ conns[e].w = "relaying" /\ conns[e].accepted = "open" /\ conns[e].target = "open"

\* ------------------------------------------------------------------- C18
\* C18: once the cancellation signal is raised (pf.done is closed), the
\* accept loop eventually exits, whether or not a connection ever arrives.
C18_AcceptLoopExits == done ~> (apc = "exited")

\* the relay was interrupted while idle, and its accept loop has exited
C18_Witness ==
  /\ mode = "forward" /\ done /\ apc = "exited"
  /\ totalConns = 0 /\ Accepted = {}

\* ------------------------------------------------------------------- C19
\* C19: Stop closes the listener and the client and leaves every pair in
\* flight as it is: the step of Stop changes no pair, and a pair being
\* relayed has its sockets closed only after one of its own peers closed.
C19_StopLeavesPairs ==
  [][/\ (rpc = "stopping" /\ rpc' = "stopped") =>
          (listener' = "closed" /\ client' = "closed" /\ conns' = conns)
     /\ \A c \in Slots :
          (mode = "forward" /\ conns[c].w = "relaying" /\ BothClosed(conns'[c])) =>
            conns[c].peerClosed]_vars

\* ------------------------------------------------------------------- C20
\* what the resolution of the token gave: no error, and this user, host, port
ResolvedAs(u, h, n) ==
  IF resolved.op = "parse"
  THEN /\ resolved.p.err = Nil /\ resolved.p.parsedUser = u
       /\ resolved.p.hostname = h /\ resolved.p.port = n
  ELSE /\ resolved.t.err = Nil /\ resolved.t.username = u
       /\ resolved.t.hostname = h /\ resolved.t.port = n

\* the token is not the name of a catalog entry (which the resolution of
\* executeOnHost looks up first)
NoCatalogName == resolved.op \in {"resolve", "connect"} => FindHost(cfg, token) = 0

\* users without "@" and hosts without ":", none empty
GivenUsers == {u \in UserParts \ {Absent, <<>>} : "@" \notin Range(u)}

GivenHosts == {h \in HostParts \ {<<>>} : ":" \notin Range(h)}

\* C20: a token user@host:port that is no catalog name, with a non-empty
\* user, a non-empty host and a decimal port in 1..65535, resolves to
\* exactly that user, host and port; a token that is a host alone resolves
\* to the effective user and port 22.
C20_LiteralResolvesExactly ==
  resolved.op # "none" =>
    /\ \A u \in GivenUsers, h \in GivenHosts, n \in PortNumbers \cap (1..65535) :
         (token = Join(u, h, Itoa(n)) /\ NoCatalogName) => ResolvedAs(u, h, n)
    /\ \A h \in GivenHosts :
         (token = h /\ "@" \notin Range(h) /\ ~tokenUser.isNil /\ NoCatalogName) =>
           ResolvedAs(tokenUser.Name, h, 22)

\* bo@h1:65535 was resolved for the effective user al
C20_Witness ==
  /\ resolved.op = "resolve" /\ tokenUser = User_al
  /\ token = Join(u_bo, a_h1, Itoa(65535))
  /\ resolved.t.username = u_bo /\ resolved.t.hostname = a_h1 /\ resolved.t.port = 65535

\* ------------------------------------------------------------------- C21
\* ports that are no decimal number of 1..65535
BadPorts == {<<"2", "x">>, Itoa(0), Itoa(65536)}

\* the token, read as [user@]host[:port], has an empty host or a bad port
Malformed ==
  \/ \E u \in UserParts, p \in PortParts : token = Join(u, <<>>, p)
  \/ \E u \in UserParts, h \in HostParts \ {<<>>}, p \in BadPorts : token = Join(u, h, p)

\* the resolution failed and gave no user, host or port
NoEndpoint ==
  IF resolved.op = "parse"
  THEN resolved.p.err # Nil /\ resolved.p = NoParsedHost(resolved.p.err)
  ELSE resolved.t.err # Nil /\ resolved.t.hostname = <<>> /\ resolved.t.port = 0

\* C21: a malformed token (empty host, with or without a user or a port;
\* non-numeric port; port above 65535; port below 1) makes the resolution
\* fail with an error and give no endpoint.
C21_MalformedIsRejected ==
  (resolved.op # "none" /\ Malformed /\ NoCatalogName) => NoEndpoint

\* ------------------------------------------------------------------- C22
\* the resolution gave an endpoint, which goes to NewSSHConnection and dial
HandedToDialer == resolved.op \in {"resolve", "connect"} /\ resolved.t.err = Nil

\* the token names no port: a catalog name, or a literal without ":port"
NoPortInToken == \E u \in UserParts, h \in HostParts \ {<<>>} : token = Join(u, h, Absent)

\* C22: every endpoint handed to the dialer, from a catalog entry or from a
\* literal token, has a port in 1..65535, and port 22 when the literal token
\* names no port.
C22_PortInRange ==
  HandedToDialer =>
    /\ resolved.t.port \in 1..65535
    /\ (NoPortInToken /\ NoCatalogName) => resolved.t.port = 22

\* ------------------------------------------------------------------- C23
\* the key list a user has in the catalog, "~" written out
ConfiguredKeys(u) == [i \in 1..Len(u.SSHKeys) |-> ExpandHomePath(u.SSHKeys[i])]

\* C23: a token that is the name of a catalog entry resolves to that entry's
\* stored host and port, with the effective user and the effective user's
\* key list; it is not read as a literal (its own text is not the host, and
\* it is never a host to create).
C23_CatalogNameWins ==
  resolved.op = "resolve" =>
    \A i \in 1..Len(cfg.Hosts) :
      (cfg.Hosts[i].Name = token /\ \A j \in 1..(i - 1) : cfg.Hosts[j].Name # token) =>
        /\ resolved.t.err = Nil
        /\ resolved.t.hostname = cfg.Hosts[i].Host
        /\ resolved.t.port = cfg.Hosts[i].Port
        /\ resolved.t.username = tokenUser.Name
        /\ resolved.t.sshKeys = ConfiguredKeys(tokenUser)
        /\ ~resolved.t.shouldAutoCreate

\* w2 was resolved for the user al: host h2, port 2222, al's two keys
C23_Witness ==
  /\ resolved.op = "resolve" /\ token = n_w2 /\ tokenUser = User_al
  /\ resolved.t.hostname = a_h2 /\ resolved.t.port = 2222
  /\ Len(resolved.t.sshKeys) = 2

\* ------------------------------------------------------------------- C24
\* the keys the resolution gave: a list in fan-out mode, one key or none in
\* single-endpoint mode
KeysOf(t) ==
  IF resolved.op = "connect" THEN (IF t.sshKey = <<>> THEN <<>> ELSE <<t.sshKey>>)
  ELSE t.sshKeys

\* what a mode can carry of a key list: all of it in fan-out mode, its first
\* key in single-endpoint mode
Carried(keys) ==
  IF resolved.op = "connect" /\ Len(keys) > 1 THEN <<keys[1]>> ELSE keys

\* the token is literal and names the user u, who is not the effective user
NamesUser(u) ==
  /\ u # tokenUser.Name /\ NoCatalogName
  /\ \E h \in GivenHosts, p \in {Absent, Itoa(22), Itoa(2222)} : token = Join(u, h, p)

\* C24: a literal token that names a user other than the effective user
\* gives that user, with that user's own key list from the catalog (empty
\* when the catalog does not know the user) and no key of the effective
\* user, in single-endpoint mode and in fan-out mode.
C24_ExplicitUserOwnKeys ==
  resolved.op \in {"resolve", "connect"} =>
    \A u \in GivenUsers :
      NamesUser(u) =>
        /\ resolved.t.err = Nil /\ resolved.t.username = u
        /\ KeysOf(resolved.t) = Carried(ConfiguredKeys(FindUser(cfg, u)))
        /\ Range(KeysOf(resolved.t)) \cap Range(ConfiguredKeys(tokenUser)) = {}

\* ----------------------------------------------------- group expansion
\* The start of ConnectMultiple alone, over argument lists that also name
\* one endpoint in several ways: by catalog name, by address, with the
\* default user or the default port written out, and through two groups.
tok_al_h1 == <<"a","l","@","h","1">>
tok_h1_22 == <<"h","1",":","2","2">>
tok_tagdb == <<"@","d","b">>

ExpandPool == TokenPool \cup {n_w2, a_h1, tok_al_h1, tok_h1_22, tok_tagdb}

ExpandLists == UNION { [1..k -> ExpandPool] : k \in 1..MaxArgs }

InitExpand ==
  /\ cfg = Catalog(<<User_al, User_op, User_bo>>, TRUE)
  /\ hostArgs \in ExpandLists
  /\ selectedUser = NilUser /\ jumpHost = NilJump /\ askPassword = FALSE
  /\ pc = "start" /\ exitMsg = ""
  /\ effectiveUser = NilUser
  /\ expandedHosts = <<>> /\ tagsFound = <<>> /\ warnings = 0
  /\ password = "" /\ prompts = 0 /\ next = 1
  /\ wg = 0 /\ results = <<>> /\ closed = FALSE /\ closer = "unborn"
  /\ allResults = <<>>
  /\ displayed = [shown |-> FALSE, success |-> 0, failure |-> 0, total |-> 0]
  /\ wpc = <<>> /\ wres = <<>>
  /\ ConnIdle /\ RelayIdle /\ ParseIdle /\ InstallIdle

NextExpand == Begin

SpecExpand == InitExpand /\ [][NextExpand]_vars

\* ------------------------------------------------------------------- C25
\* expandTagsToHosts has just returned to ConnectMultiple, which stores what
\* it returned and never assigns it again
Expanded == ~effectiveUser.isNil /\ pc \in {"prompt", "exit"}

IsGroup(arg) == Len(arg) >= 1 /\ arg[1] = "@"

GroupName(arg) == SubSeq(arg, 2, Len(arg))

\* what the arguments stand for, as <<i, k, name>>: argument i is a literal
\* (k = 0) named name, or a group of which name is the k-th catalog host
Items ==
  UNION { IF IsGroup(hostArgs[i])
          THEN {<<i, k, cfg.Hosts[k].Name>> : k \in {k \in 1..Len(cfg.Hosts) : HostHasTag(cfg.Hosts[k], GroupName(hostArgs[i]))}}
          ELSE {<<i, 0, hostArgs[i]>>} : i \in 1..Len(hostArgs) }

Before(x, y) == x[1] < y[1] \/ (x[1] = y[1] /\ x[2] < y[2])

\* the first appearance of a name among the items
FirstOf(name) ==
  CHOOSE x \in Items : x[3] = name /\ \A y \in Items : y[3] = name => (y = x \/ Before(x, y))

GroupArgs == SelectSeq(hostArgs, IsGroup)

\* C25: the expansion holds the literal tokens and, for every @group token,
\* the names of the catalog hosts carrying the tag; every name is there
\* once, at the place of its first appearance; tagsFound holds the group
\* names in the order seen.
C25_ExpansionKeepsFirstAppearance ==
  Expanded =>
    /\ Range(expandedHosts) = {x[3] : x \in Items}
    /\ \A a, b \in 1..Len(expandedHosts) :
         a < b => /\ expandedHosts[a] # expandedHosts[b]
                  /\ Before(FirstOf(expandedHosts[a]), FirstOf(expandedHosts[b]))
    /\ tagsFound = [j \in 1..Len(GroupArgs) |-> GroupName(GroupArgs[j])]

\* [@web, bo@h4] was expanded to [w1, w2, bo@h4], and the group seen is web
C25_Witness ==
  /\ Expanded /\ hostArgs = <<tok_tagweb, tok_bo_h4>>
  /\ expandedHosts = <<n_w1, n_w2, tok_bo_h4>>
  /\ tagsFound = <<t_web>>

\* ------------------------------------------------------------------- C26
\* the endpoint a token of the expanded list resolves to, as executeOnHost
\* resolves it
Endpoint(t) == ResolveToken(cfg, t, effectiveUser)

SameEndpoint(s, t) ==
  /\ Endpoint(s).err = Nil /\ Endpoint(t).err = Nil
  /\ Endpoint(s).username = Endpoint(t).username
  /\ Endpoint(s).hostname = Endpoint(t).hostname
  /\ Endpoint(s).port = Endpoint(t).port

\* C26 as claimed: after group expansion no two tokens of the list resolve
\* to the same user, host and port.
C26_Claimed ==
  Expanded =>
    \A a, b \in 1..Len(expandedHosts) :
      a # b => ~SameEndpoint(expandedHosts[a], expandedHosts[b])

\* C26, amended: after group expansion no two tokens of the list are the
\* same name; two tokens that resolve to the same user, host and port stay
\* in the list when they are written differently.
C26_NoNameTwice ==
  Expanded =>
    \A a, b \in 1..Len(expandedHosts) :
      a # b => expandedHosts[a] # expandedHosts[b]

\* the catalog name w1 and its address h1 are both in the expanded list,
\* and both resolve to al@h1:22
C26_Witness ==
  /\ Expanded /\ hostArgs = <<tok_tagweb, a_h1>>
  /\ expandedHosts = <<n_w1, n_w2, a_h1>>
  /\ SameEndpoint(n_w1, a_h1)

\* ------------------------------------------------------------------- C27
\* a group argument that no catalog host carries
EmptyGroup(arg) ==
  IsGroup(arg) /\ \A k \in 1..Len(cfg.Hosts) : ~HostHasTag(cfg.Hosts[k], GroupName(arg))

Populated(arg) == ~EmptyGroup(arg)

\* the batch without its empty groups
OtherArgs == SelectSeq(hostArgs, Populated)

\* C27: a group without members adds no token and exactly one warning, and
\* the rest of the batch is expanded as if the empty group had not been
\* given; no other argument gives a warning.
C27_EmptyGroupOnlyWarns ==
  Expanded =>
    /\ warnings = Len(hostArgs) - Len(OtherArgs)
    /\ expandedHosts = expandTagsToHosts(cfg, OtherArgs).hosts
    /\ expandTagsToHosts(cfg, OtherArgs).warnings = 0
    /\ Range(expandedHosts) = {x[3] : x \in Items}

\* [w1, @no]: one warning, and w1 is still returned
C27_Witness ==
  /\ Expanded /\ hostArgs = <<n_w1, tok_tagno>>
  /\ expandedHosts = <<n_w1>> /\ warnings = 1

\* [@no] alone: the empty list and one warning
C27_WitnessAlone ==
  /\ Expanded /\ hostArgs = <<tok_tagno>>
  /\ expandedHosts = <<>> /\ warnings = 1

\* ------------------------------------------------------------------- C28
HintTexts ==
  Range(Hint(FALSE, "", <<>>)) \cup Range(Hint(FALSE, "", <<Home \o <<"k1">>>>))

\* the error text of a result ends with advice to supply a password
HasHint(result) == \E k \in 1..Len(result.Error) : result.Error[k] \in HintTexts

\* the call failed because no authentication method was accepted
AuthFailure(w) ==
  w.ran /\ \E k \in 1..Len(w.exec.err) : w.exec.err[k] = "unable to authenticate"

\* a key file of the connection loads and the endpoint accepts its key
WorkingKey(w) == Range(LoadSigners(w.conn.SSHKeys)) \cap w.net.d.accepts # {}

\* C28: a failed result carries the advice to supply a password only when
\* the failure is an authentication failure and neither a password nor a
\* working key was available.
C28_HintOnlyForAuthFailure ==
  \A i \in DOMAIN wpc :
    (WorkerReturned(i) /\ ~wres[i].result.Success /\ HasHint(wres[i].result)) =>
      /\ AuthFailure(wres[i])
      /\ password = ""
      /\ ~WorkingKey(wres[i])

\* ------------------------------------------------------------------- C29
\* the catalog the run was started with, and what the run added to it
CatalogBefore == [cfg EXCEPT !.Hosts = CatalogHosts]

Added == SubSeq(cfg.Hosts, Len(CatalogHosts) + 1, Len(cfg.Hosts))

AutoCreatedTags == << <<"a","u","t","o","c","r","e","a","t","e","d">> >>

\* the result of a worker that succeeded on the token the entry h is named
\* after, at the address and port the entry holds
SucceededFor(h) ==
  \E j \in 1..Len(allResults) :
    /\ allResults[j].Success /\ allResults[j].Host = h.Name
    /\ allResults[j].Hostname = h.Host /\ allResults[j].Port = h.Port

\* C29: the entries the catalog started with stay as they are; an entry is
\* added only with auto_create enabled, for a token whose connection and
\* command succeeded, that is no catalog name and whose address no catalog
\* entry holds, and it carries the tag autocreated; with auto_create
\* disabled, and when every connection failed, nothing is added.
C29_AutoCreateOnlyNewSucceeded ==
  /\ Len(cfg.Hosts) >= Len(CatalogHosts)
  /\ SubSeq(cfg.Hosts, 1, Len(CatalogHosts)) = CatalogHosts
  /\ Added # <<>> => cfg.AutoCreate /\ pc = "done"
  /\ \A k \in 1..Len(Added) :
       /\ Added[k].Tags = AutoCreatedTags
       /\ FindHost(CatalogBefore, Added[k].Name) = 0
       /\ FindHostByAddress(CatalogBefore, Added[k].Host) = 0
       /\ SucceededFor(Added[k])
  /\ (pc = "done" /\ \A j \in 1..Len(allResults) : ~allResults[j].Success) => Added = <<>>

\* [h1, bo@h4] with a password: both succeeded, h1 is the address of w1 and
\* was not added, bo@h4 was added as h4:22
C29_Witness ==
  /\ pc = "done" /\ hostArgs = <<a_h1, tok_bo_h4>>
  /\ \A j \in 1..Len(allResults) : allResults[j].Success
  /\ Len(Added) = 1 /\ Added[1].Name = tok_bo_h4 /\ Added[1].Host = a_h4
  /\ Added[1].Port = 22 /\ Added[1].Tags = AutoCreatedTags

\* the same run with auto_create disabled: the catalog is as it was
C29_WitnessDisabled ==
  /\ pc = "done" /\ hostArgs = <<a_h1, tok_bo_h4>> /\ ~cfg.AutoCreate
  /\ \A j \in 1..Len(allResults) : allResults[j].Success
  /\ cfg.Hosts = CatalogHosts

\* ------------------------------------------------------------------- C30
\* the place of a kind of method in the order of attempts
Rank(kind) ==
  CASE kind = "publickeys" -> 1
    [] kind = "agent" -> 2
    [] kind = "password" -> 3
    [] kind = "callback" -> 3

Ordered(methods) ==
  \A i, j \in 1..Len(methods) : i < j => Rank(methods[i].kind) < Rank(methods[j].kind)

OfKind(methods, kind) == {i \in 1..Len(methods) : methods[i].kind = kind}

Loads(path) == path # <<>> /\ path \in UsableKeyFiles

\* the key files of the connection that can be read and parsed, in order
LoadedKeys == SelectSeq(sc.SSHKeys, Loads)

\* C30: the methods of the configuration are, in this order, one key method
\* holding the keys of all the key files that load (none when none loads),
\* the agent method when the agent can be reached, and then the preset
\* password when one is set, else the prompt callback when prompting is
\* allowed, else nothing; the jump host's methods keep the same order.
C30_AuthMethodsOrder ==
  scret.op # "none" =>
    LET auth == scret.config.Auth
    IN /\ Ordered(auth)
       /\ Ordered(scret.dial.jumpAuth) /\ Ordered(scret.exec.jumpAuth)
       /\ OfKind(auth, "publickeys") # {} <=> Len(LoadedKeys) > 0
       /\ \A i \in OfKind(auth, "publickeys") :
            auth[i].keys = [k \in 1..Len(LoadedKeys) |-> SignerOf(LoadedKeys[k])]
       /\ OfKind(auth, "agent") # {} <=> scenv.d.agent
       /\ OfKind(auth, "password") # {} <=> sc.Password # ""
       /\ \A i \in OfKind(auth, "password") : auth[i].pw = sc.Password
       /\ OfKind(auth, "callback") # {} <=>
            (sc.Password = "" /\ sc.InteractivePasswordAllowed)

\* three key paths of which one loads, the agent reachable and a password
\* set: the key method holding that one key, the agent, the password
C30_Witness ==
  /\ scret.op # "none" /\ Len(sc.SSHKeys) = 3
  /\ Len(scret.config.Auth) = 3
  /\ scret.config.Auth[1] = AuthMethod("publickeys", <<"k2">>, "")
  /\ scret.config.Auth[2].kind = "agent"
  /\ scret.config.Auth[3] = AuthMethod("password", <<>>, "pw")

\* two key files that both load: one key method offering both keys
C30_WitnessCombined ==
  /\ scret.op # "none"
  /\ scret.config.Auth = <<AuthMethod("publickeys", <<"k1", "k2">>, ""),
                           AuthMethod("callback", <<>>, "")>>

\* ------------------------------------------------------------------- C31
\* C31: once the listener has failed (Accept returned an error other than
\* the deadline's timeout), the accept loop has ended: it does not go back
\* to the top of the loop to call Accept on the failed listener.
C31_ListenerErrorEndsLoop ==
  /\ listener = "failed" => apc = "exited"
  /\ (mode = "proxy" /\ apc = "exited") => listener = "closed"

\* ------------------------------------------------------------------- C32
\* what executeOnHost makes of worker i's token with the catalog the run
\* was started with
SnapshotTarget(i) == ResolveToken(CatalogBefore, expandedHosts[i], effectiveUser)

\* C32: the catalog differs from the one the run started with only when the
\* run is over: every worker is done and every result was collected; and
\* every worker has resolved its token against the catalog the run started
\* with.
C32_CatalogFrozenWhileWorkersRun ==
  /\ cfg # CatalogBefore =>
       /\ pc = "done" /\ Len(allResults) = Len(expandedHosts)
       /\ \A i \in DOMAIN wpc : wpc[i] = "done"
  /\ \A i \in DOMAIN wpc :
       (WorkerReturned(i) /\ wres[i].ran) =>
         /\ wres[i].conn.User = SnapshotTarget(i).username
         /\ wres[i].conn.Host = SnapshotTarget(i).hostname
         /\ wres[i].conn.Port = SnapshotTarget(i).port
         /\ wres[i].result.Success =>
              wres[i].result.ShouldAutoCreate = SnapshotTarget(i).shouldAutoCreate

\* [bo@h4, h4] with a password: both workers succeeded against the catalog
\* without h4, and both tokens were added when the run was over
C32_Witness ==
  /\ pc = "done" /\ hostArgs = <<tok_bo_h4, a_h4>>
  /\ Len(cfg.Hosts) = Len(CatalogHosts) + 2
  /\ \A i \in DOMAIN wpc : wres[i].result.Success /\ wres[i].result.ShouldAutoCreate

\* ------------------------------------------------------- key installation
\* installPublicKeyIfNeeded step by step, run by several sessions that have
\* authenticated to the same remote account with the same first key: fan-out
\* workers whose tokens resolve to one account, or several invocations of the
\* program.  store counts the lines of ~/.ssh/authorized_keys that equal the
\* public key.
Sessions == 1..MaxSessions

\* the early returns, then client.NewSession() for the check
InstallBegin(s) ==
  /\ ipc[s] = "new"
  /\ \E outcome \in {"no public key", "no session", "session"} :
       ipc' = [ipc EXCEPT ![s] = CASE outcome = "no public key" -> "returned"
                                   [] outcome = "no session" -> "failed"
                                   [] OTHER -> "checking"]
  /\ UNCHANGED <<fanVars, relayVars, parseVars, store>>

\* session.Run(grep -Fxq pubKey ~/.ssh/authorized_keys): exit 0 when a line
\* equals the key, an ExitError when none does
InstallCheck(s) ==
  /\ ipc[s] = "checking"
  /\ ipc' = [ipc EXCEPT ![s] = IF store > 0 THEN "returned" ELSE "absent"]
  /\ UNCHANGED <<fanVars, relayVars, parseVars, store>>

\* session.Run fails with an error that is no ExitError
InstallCheckError(s) ==
  /\ ipc[s] = "checking"
  /\ ipc' = [ipc EXCEPT ![s] = "failed"]
  /\ UNCHANGED <<fanVars, relayVars, parseVars, store>>

\* client.NewSession() for the installation
InstallOpen(s) ==
  /\ ipc[s] = "absent"
  /\ \E ok \in BOOLEAN : ipc' = [ipc EXCEPT ![s] = IF ok THEN "installing" ELSE "failed"]
  /\ UNCHANGED <<fanVars, relayVars, parseVars, store>>

\* installSession.Run(mkdir -p ... && echo pubKey >> authorized_keys && chmod)
InstallAppend(s) ==
  /\ ipc[s] = "installing"
  /\ store' = store + 1
  /\ ipc' = [ipc EXCEPT ![s] = "installed"]
  /\ UNCHANGED <<fanVars, relayVars, parseVars>>

\* installSession.Run fails before the echo
InstallAppendError(s) ==
  /\ ipc[s] = "installing"
  /\ ipc' = [ipc EXCEPT ![s] = "failed"]
  /\ UNCHANGED <<fanVars, relayVars, parseVars, store>>

InitInstall ==
  /\ FanIdle /\ ConnIdle /\ RelayIdle /\ ParseIdle
  /\ store \in {0, 1}
  /\ ipc = [s \in Sessions |-> "new"]

NextInstall ==
  \/ \E s \in Sessions : InstallBegin(s)
  \/ \E s \in Sessions : InstallCheck(s)
  \/ \E s \in Sessions : InstallCheckError(s)
  \/ \E s \in Sessions : InstallOpen(s)
  \/ \E s \in Sessions : InstallAppend(s)
  \/ \E s \in Sessions : InstallAppendError(s)

SpecInstall == InitInstall /\ [][NextInstall]_vars

\* ------------------------------------------------------------------- C33
\* C33: a session appends the key only after its check found no line equal
\* to it, and the store never holds the key more than once, whatever the
\* sessions that reach the account and however their steps interleave.
C33_KeyStoredAtMostOnce ==
  /\ \A s \in Sessions : ipc[s] = "installed" => store >= 1
  /\ store <= 1

\* ------------------------------------------------------------------- C34
\* C34: a worker that has its result can always publish it (the channel is
\* open and holds fewer results than there are workers); the channel is
\* closed only when every worker has published and returned, and only by
\* the one step of the closer; and a run that spawns its workers ends.
C34_FanOutTerminates ==
  /\ [](\A i \in DOMAIN wpc :
          wpc[i] = "executed" => (~closed /\ Len(results) < Len(expandedHosts)))
  /\ [](closed => \A i \in DOMAIN wpc : wpc[i] = "done")
  /\ [][/\ closed => closed'
        /\ (~closed /\ closed') => (closer = "waiting" /\ closer' = "done")]_vars
  /\ (pc = "spawn") ~> (pc = "done" /\ closed /\ Len(allResults) = Len(expandedHosts))

\* a run of two workers, one that succeeded and one that failed, is over and
\* its channel is closed
C34_Witness ==
  /\ pc = "done" /\ closed /\ closer = "done"
  /\ hostArgs = <<a_h1, tok_bo_h4>> /\ Len(allResults) = 2
  /\ \E j, k \in 1..2 : allResults[j].Success /\ ~allResults[k].Success

\* ------------------------------------------------------------------- C35
\* what a returned call of ExecuteCommandWithOutput, ExecuteCommand or
\* Connect has left open
LeftOpen == IF scret.op = "exec" THEN scret.exec.open ELSE scret.run.open

\* C35: when Connect, ExecuteCommand or ExecuteCommandWithOutput has
\* returned, the connection to the jump host that dial opened is closed
\* along with the endpoint connection.
C35_JumpConnectionClosed ==
  (scpc = "returned" /\ scret.op \in {"exec", "command", "connect"}
     /\ ~sc.JumpHost.isNil) =>
    ("client" \notin LeftOpen /\ "jumpClient" \notin LeftOpen)

\* ------------------------------------------------------------------- C36
\* the connections for which a relay worker was started
Spawned == {c \in Slots : conns[c].w # "none"}

\* C36 as claimed: once pf.done is closed no step accepts a connection or
\* starts a relay worker.
C36_Claimed ==
  [][done => (Accepted' = Accepted /\ Spawned' = Spawned)]_vars

\* C36, amended: once pf.done is closed the accept loop leaves at its next
\* look at pf.done; a connection is accepted after that only by the Accept
\* call that was under way, while Stop has not closed the listener, and
\* nothing is accepted or started once the loop has exited.
C36_LoopLeavesAtNextCheck ==
  [][/\ (done /\ apc = "check") => apc' \in {"check", "exited"}
     /\ (done /\ Accepted' # Accepted) => (apc = "accept" /\ listener = "open")
     /\ (done /\ Spawned' # Spawned /\ mode = "forward") => apc = "count active"
     /\ apc = "exited" =>
          (apc' = "exited" /\ Accepted' = Accepted /\ Spawned' = Spawned)]_vars

\* pf.done is closed and the loop is about to start the worker of a
\* connection it accepted
C36_Witness ==
  /\ mode = "forward" /\ done /\ apc = "count active"
  /\ Cardinality(Accepted) = Cardinality(Spawned) + 1

\* ------------------------------------------------------------------- C37
\* C37: no entry that auto-creation added has the host address of another
\* entry of the catalog, added or not.
C37_AddedAddressesUnique ==
  \A k \in 1..Len(Added) :
    \A j \in 1..Len(cfg.Hosts) :
      j # Len(CatalogHosts) + k => cfg.Hosts[j].Host # Added[k].Host

\* ------------------------------------------------------------------- C38
\* the endpoint a token resolves to against the catalog c
EndpointOf(c, hostArg) ==
  LET t == ResolveToken(c, hostArg, effectiveUser)
  IN <<t.err, t.username, t.hostname, t.port>>

\* C38: a token whose host was auto-created resolves against the catalog
\* the run leaves behind, for the same effective user, to the user, host
\* and port it resolved to in the run that created it.
C38_AutoCreatedResolvesTheSame ==
  pc = "done" =>
    \A k \in 1..Len(Added) :
      EndpointOf(cfg, Added[k].Name) = EndpointOf(CatalogBefore, Added[k].Name)

\* ------------------------------------------------------------------- C39
\* what ExecuteCommandWithOutput returns for the connection and the network
\* of the ExecuteCommand call that returned; executeOnHost reports
\* Success = false exactly when it returns an error
FanOutFails == ExecuteCommandWithOutput(sc, scenv).err # Nil

CommandReturned == scpc = "returned" /\ scret.op = "command"

NonzeroExit ==
  /\ ExecuteCommandWithOutput(sc, scenv).dialed
  /\ scenv.r.session /\ scenv.r.end = "exit" /\ scenv.r.status # 0

\* C39 as claimed: for every outcome, ExecuteCommand reports a failure exactly
\* when the fan-out mode reports one.
C39_Claimed ==
  CommandReturned => (scret.run.err # Nil <=> FanOutFails)

\* C39: ExecuteCommand and the fan-out mode agree on every outcome but a
\* nonzero remote exit, which ExecuteCommand returns as an error and the
\* fan-out mode reports as a success carrying the exit code.
C39_ModesDifferOnNonzeroExit ==
  CommandReturned =>
    /\ ~NonzeroExit => (scret.run.err # Nil <=> FanOutFails)
    /\ NonzeroExit =>
         /\ scret.run.err # Nil /\ ~FanOutFails
         /\ ExecuteCommandWithOutput(sc, scenv).exitCode = scenv.r.status

\* the command exited with status 3: an error in one mode, a success in the other
C39_Witness ==
  /\ CommandReturned /\ NonzeroExit /\ scenv.r.status = 3
  /\ scret.run.err # Nil /\ ~FanOutFails

\* the connection dropped during the command: a failure in both modes
C39_WitnessTransport ==
  /\ CommandReturned /\ scret.run.started /\ scenv.r.end = "transport"
  /\ scret.run.err # Nil /\ FanOutFails

====
